---------------------------- MODULE Spec2Model ----------------------------
(***************************************************************************)
(* Model of wgrabber: the URL template engine (wgrabber/url_processor.py)  *)
(* and the image grabber (wgrabber/image_grabber.py).                      *)
(*                                                                         *)
(* Strings are sequences of one-character strings, so that split, findall, *)
(* sub, format and zfill are computed character by character as Python     *)
(* computes them.  The adaptive delay is an exact rational <<num, den>>    *)
(* in lowest terms (binary rounding of the Python floats is not modelled). *)
(*                                                                         *)
(* Specifications:                                                         *)
(*   SpecURL   - a URLProcessor built from a sample URL and enumerated     *)
(*   SpecCrawl - ImageGrabber._page_crawl consumed to its end              *)
(*   SpecFetch - ImageGrabber._download_image_with_retry called directly   *)
(*   Spec      - ImageGrabber._download_list over a materialized list      *)
(***************************************************************************)
EXTENDS Integers, Sequences, FiniteSets, TLC

(***************************************************************************)
(* Bounds of the model                                                     *)
(***************************************************************************)
MaxFnLen == 4
MaxPageNum == 10
\* largest page count of a crawled gallery
MaxCrawlPages == 3
\* page count of the long crawl
LongCrawlPages == 25
\* number of coroutines that call the image fetcher concurrently
NumCallers == 2
\* longest materialized URL list handed to _download_list
MaxUrls == 4

(***************************************************************************)
(* Strings                                                                 *)
(***************************************************************************)
DigitSeq == <<"0", "1", "2", "3", "4", "5", "6", "7", "8", "9">>
Digits == {DigitSeq[k] : k \in 1..10}
IsDigit(c) == c \in Digits

\* str(n) for n >= 0
RECURSIVE Str(_)
Str(n) == IF n < 10 THEN <<DigitSeq[n + 1]>>
          ELSE Str(n \div 10) \o <<DigitSeq[(n % 10) + 1]>>

RECURSIVE Zfill(_, _)
\* a padding that keeps the last w characters only
ZfillTruncates(s, w) ==
    [j \in 1..w |-> IF j <= w - Len(s) THEN "0" ELSE s[Len(s) - w + j]]

\* str.zfill(w): pad on the left with "0" up to width w, never truncate
Zfill(s, w) == IF Len(s) >= w THEN s ELSE Zfill(<<"0">> \o s, w)

\* s[p:] starts with k
StartsAt(s, p, k) ==
    /\ p + Len(k) - 1 <= Len(s)
    /\ \A j \in 1..Len(k) : s[p + j - 1] = k[j]

\* url.split("/")[-1]
LastSegment(url) ==
    LET slashes == {p \in 1..Len(url) : url[p] = "/"}
        start == IF slashes = {} THEN 1
                 ELSE (CHOOSE p \in slashes : \A q \in slashes : q <= p) + 1
    IN  SubSeq(url, start, Len(url))

\* re.findall(r"\d+", fn): the maximal digit runs, left to right
RECURSIVE FindAllFrom(_, _, _)
FindAllFrom(fn, p, cur) ==
    IF p > Len(fn) THEN (IF cur = <<>> THEN <<>> ELSE <<cur>>)
    ELSE IF IsDigit(fn[p]) THEN FindAllFrom(fn, p + 1, Append(cur, fn[p]))
    ELSE (IF cur = <<>> THEN <<>> ELSE <<cur>>) \o FindAllFrom(fn, p + 1, <<>>)

FindAllDigits(fn) == FindAllFrom(fn, 1, <<>>)

\* "var%i" % k and "{var%i}" % k
VarName(k) == <<"v", "a", "r">> \o Str(k)
Placeholder(k) == <<"{">> \o VarName(k) \o <<"}">>

(***************************************************************************)
(* URLProcessor._generate_template                                         *)
(***************************************************************************)
\* rep[item] = value on a dict kept as a sequence of items in insertion
\* order: an existing key keeps its position and takes the new value
DictSet(d, key, val) ==
    IF \E j \in 1..Len(d) : d[j].k = key
    THEN [j \in 1..Len(d) |-> IF d[j].k = key THEN [k |-> key, v |-> val] ELSE d[j]]
    ELSE Append(d, [k |-> key, v |-> val])

\* for index, item in enumerate(str_to_replaced): rep[item] = "{var%i}" % index
RECURSIVE BuildRep(_, _, _)
BuildRep(runs, index, d) ==
    IF index > Len(runs) THEN d
    ELSE BuildRep(runs, index + 1, DictSet(d, runs[index], Placeholder(index - 1)))

\* pattern.sub(lambda m: rep[m.group(0)], url) with pattern = "|".join(keys):
\* at each position the first alternative that matches is taken
RECURSIVE SubFrom(_, _, _)
SubFrom(d, url, p) ==
    IF p > Len(url) THEN <<>>
    ELSE LET hits == {j \in 1..Len(d) : StartsAt(url, p, d[j].k)}
         IN  IF hits = {} THEN <<url[p]>> \o SubFrom(d, url, p + 1)
             ELSE LET j == CHOOSE x \in hits : \A y \in hits : x <= y
                  IN  d[j].v \o SubFrom(d, url, p + Len(d[j].k))

\* a _generate_template that accepts every file name
GenerateTemplateNeverRaises(url) == FALSE

\* With no digit run the pattern is empty, matches the empty string and the
\* lambda looks up rep[""]: KeyError
GenerateTemplateRaises(url) == FindAllDigits(LastSegment(url)) = <<>>

NumVars(url) == Len(FindAllDigits(LastSegment(url)))

NDigits(url) ==
    LET runs == FindAllDigits(LastSegment(url))
    IN  [t \in 1..Len(runs) |-> Len(runs[t])]

GenerateTemplate(url) ==
    SubFrom(BuildRep(FindAllDigits(LastSegment(url)), 1, <<>>), url, 1)

(***************************************************************************)
(* template.format with the keyword dict rep_dict                          *)
(***************************************************************************)
\* position of the first "}" at or after p, 0 when there is none
CloseAt(t, p) ==
    LET cs == {q \in p..Len(t) : t[q] = "}"}
    IN  IF cs = {} THEN 0 ELSE CHOOSE q \in cs : \A r \in cs : q <= r

\* every replacement field names a key of the dict
RECURSIVE FormatOK(_, _, _)
FormatOK(t, names, p) ==
    IF p > Len(t) THEN TRUE
    ELSE IF t[p] = "{"
         THEN LET c == CloseAt(t, p)
              IN  /\ c # 0
                  /\ SubSeq(t, p + 1, c - 1) \in names
                  /\ FormatOK(t, names, c + 1)
         ELSE FormatOK(t, names, p + 1)

\* rd is a function from field names to strings
RECURSIVE FormatFrom(_, _, _)
FormatFrom(t, rd, p) ==
    IF p > Len(t) THEN <<>>
    ELSE IF t[p] = "{"
         THEN LET c == CloseAt(t, p)
              IN  rd[SubSeq(t, p + 1, c - 1)] \o FormatFrom(t, rd, c + 1)
         ELSE <<t[p]>> \o FormatFrom(t, rd, p + 1)

Format(t, rd) == FormatFrom(t, rd, 1)

(***************************************************************************)
(* URLProcessor.normal_url_list / special_url_list                         *)
(***************************************************************************)
LC_LIST == <<"a", "b", "c", "d", "e", "f", "g">>
CAP_LIST == <<"A", "B", "C", "D", "E", "F", "G">>
NUM_LIST == <<"0", "1", "2", "3", "4", "5", "6">>
SpCList == LC_LIST \o CAP_LIST \o NUM_LIST

VarNames(nv) == {VarName(t) : t \in 0..(nv - 1)}
VarIndex(name, nv) == CHOOSE t \in 0..(nv - 1) : VarName(t) = name

\* mutant: the index is not zero-padded
NormalRepDictUnpadded(i, nv, nd) ==
    [name \in VarNames(nv) |-> Str(i)]

\* {"var%i" % t: str(i).zfill(n_digits[t]) for t in range(num_vars)}
NormalRepDict(i, nv, nd) ==
    [name \in VarNames(nv) |-> Zfill(Str(i), nd[VarIndex(name, nv) + 1])]

\* mutant: the page count is an exclusive bound
NormalRangeExclusive(n) == 0..(n - 1)

\* range(0, self.pnum + 1)
NormalRange(n) == 0..n

\* the zero-padded "0", with sep + c appended for the last variable
SpecialRepDict(c, sep, nv, nd) ==
    [name \in VarNames(nv) |->
        LET t == VarIndex(name, nv)
        IN  IF t < nv - 1 THEN Zfill(<<"0">>, nd[t + 1])
            ELSE Zfill(<<"0">>, nd[t + 1]) \o sep \o <<c>>]


(***************************************************************************)
(* Exact rationals <<n, d>> with d > 0, in lowest terms                    *)
(***************************************************************************)
RECURSIVE Gcd(_, _)
Gcd(a, b) == IF b = 0 THEN a ELSE Gcd(b, a % b)

Rat(n, d) == LET g == Gcd(n, d) IN <<n \div g, d \div g>>
RMul(r, n, d) == Rat(r[1] * n, r[2] * d)
RAdd(r, q) == Rat(r[1] * q[2] + q[1] * r[2], r[2] * q[2])
RLess(r, q) == r[1] * q[2] < q[1] * r[2]
RLeq(r, q) == r[1] * q[2] <= q[1] * r[2]
RMin(r, q) == IF RLess(q, r) THEN q ELSE r
RMax(r, q) == IF RLess(r, q) THEN q ELSE r

(***************************************************************************)
(* State                                                                   *)
(***************************************************************************)
VARIABLES
    \* URLProcessor: constructor arguments and fields
    data_url, pnum, template, num_vars, n_digits,
    \* "new", "ready", "KeyError", "iter" (a generator is being consumed),
    \* "exhausted" (the generator raised StopIteration)
    u_pc,
    \* the generator being consumed: its kind, sep argument and loop position
    gen_kind, gen_sep, gen_i,
    \* the URLs the consumer has received from the current generator
    generated

urlVars == <<data_url, pnum, template, num_vars, n_digits, u_pc,
             gen_kind, gen_sep, gen_i, generated>>

VARIABLES
    \* ImageGrabber fields
    page_num, disable_delays, consecutive_failures, current_delay,
    success_count,
    \* the session held in self.scraper (0 is the one set by __init__, each
    \* refresh creates the next one), self._own_scraper, the closed sessions
    scraper, own_scraper, closed

grabberVars == <<page_num, disable_delays, consecutive_failures, current_delay,
                 success_count, scraper, own_scraper, closed>>

VARIABLES
    \* _page_crawl: position of the generator ("none" when it does not run,
    \* "raised" when an exception left it),
    \* loop variables page_num (c_page) and attempt, result (status code or
    \* NoneResult), the page of the chain that url points to
    c_pc, c_page, c_attempt, c_result, c_url,
    \* the image URLs received from the generator (the image of page k is k)
    c_yielded,
    \* number of get_async calls in the current page iteration, and the kind
    \* and duration of the latest sleep
    c_gets, c_slept

crawlVars == <<c_pc, c_page, c_attempt, c_result, c_url, c_yielded,
               c_gets, c_slept>>

VARIABLES
    \* _download_image_with_retry, one call per caller: position ("idle",
    \* "get" while get_async is awaited, "backoff" and "errsleep" while
    \* asleep, "returned"), loop variable attempt, the session the awaited
    \* request was issued on, the local current_failures, the return value
    \* (200 for the response, NoneResult for None)
    f_pc, f_attempt, f_session, f_current_failures, f_ret,
    \* outcome of the call's latest get_async (status code or Raised), the
    \* numbers of get_async calls and of sleeps of the call, the kind and
    \* duration of the sleep it is in
    f_last, f_gets, f_sleeps, f_slept

fetchVars == <<f_pc, f_attempt, f_session, f_current_failures, f_ret,
               f_last, f_gets, f_sleeps, f_slept>>

VARIABLES
    \* _download_list: position of the coroutine ("none", "start", "gather"
    \* while a result of as_completed is awaited, "returned", "raised"),
    \* len(urls), img_list, failed_images, the finished tasks whose result
    \* has not been retrieved yet, in completion order
    d_pc, d_n, d_img_list, d_failed, d_doneq,
    \* the free permits of semaphore, the task holding rate_lock (0: free),
    \* the value bound to last_request_time (its type and number), loop.time()
    sem, rate_lock, last_request_time, now,
    \* download_with_semaphore, one task per URL (task i has index i - 1):
    \* position, wake-up time of its sleep, result tuple
    t_pc, t_wake, t_result,
    \* the calls of _create_zip: how many, and the img_list of the latest
    zip_calls, zip_arg

listVars == <<d_pc, d_n, d_img_list, d_failed, d_doneq, sem, rate_lock,
              last_request_time, now, t_pc, t_wake, t_result,
              zip_calls, zip_arg>>

VARIABLES
    \* async_main: position ("none", "start", "validate_get" while the start
    \* page is awaited, "resolver_get" and "resolver_sleep" inside
    \* _url_resolver, "download" once download() has been called, "done",
    \* "raised" when an exception left async_main)
    m_pc,
    \* whether the start URL is non-empty, self.valid, whether self.title,
    \* self.img_link and self.data_url have been assigned, self.tag and
    \* self.subtag ("unset" before validate assigns them)
    url_set, valid, title_set, img_link_set, resolved, tag, subtag,
    \* _url_resolver: attempt, outcome of the latest request, requests made,
    \* sleeps made, the sleep in progress
    r_attempt, r_last, r_gets, r_sleeps, r_slept

mainVars == <<m_pc, url_set, valid, title_set, img_link_set, resolved, tag,
              subtag, r_attempt, r_last, r_gets, r_sleeps, r_slept>>

VARIABLES
    \* _download_single_image, one call per image task: position ("idle",
    \* "delay", "primary" and "fallback" while _download_image_with_retry
    \* runs, "saving" while the executor decodes and writes, "returned",
    \* "raised"), the index and url arguments, the URLs handed to
    \* _download_image_with_retry in order
    i_pc, i_index, i_url, i_calls,
    \* effective_url, effective_extension, the number of executor jobs
    \* submitted, the returned tuple
    i_effective_url, i_effective_extension, i_saves, i_result,
    \* the names of the files written into new_folder
    files

imageVars == <<i_pc, i_index, i_url, i_calls, i_effective_url,
               i_effective_extension, i_saves, i_result, files>>

VARIABLES
    \* _create_zip, called directly: position ("none", "called", "writing"
    \* while the archive is open, "removing", "returned", "raised"), the
    \* img_list argument, self.zip_only, the loop position in img_list
    z_pc, z_img_list, zip_only, z_pos,
    \* the ZipFile objects created (their paths), whether the archive is
    \* open, the arcnames written into it in order, the os.remove calls in
    \* order (name and whether the call succeeded), the image files present
    \* in new_folder
    z_archives, z_open, z_entries, z_removes, z_files

zipVars == <<z_pc, z_img_list, zip_only, z_pos, z_archives, z_open,
             z_entries, z_removes, z_files>>

VARIABLES
    \* download(): position ("none", "called", "collect" while the page
    \* crawl is iterated, "pass" while _download_list runs, "returned",
    \* "raised"), self.mode, the passes started, in order
    p_pc, mode, p_passes

downloadVars == <<p_pc, mode, p_passes>>

vars == <<urlVars, grabberVars, crawlVars, fetchVars, listVars, mainVars,
          imageVars, zipVars, downloadVars>>

\* what each component leaves alone
notUrlVars == <<grabberVars, crawlVars, fetchVars, listVars, mainVars,
               imageVars, zipVars, downloadVars>>
notCrawlVars == <<urlVars, fetchVars, listVars, mainVars, imageVars, zipVars,
                 downloadVars>>
notFetchVars == <<urlVars, crawlVars, listVars, mainVars, imageVars, zipVars,
                 downloadVars>>
notListVars == <<urlVars, crawlVars, fetchVars, mainVars, imageVars, zipVars,
                downloadVars>>
notMainVars == <<urlVars, crawlVars, fetchVars, listVars, imageVars, zipVars,
                downloadVars>>
notImageVars == <<urlVars, crawlVars, listVars, mainVars, zipVars,
                 downloadVars>>
notZipVars == <<urlVars, grabberVars, crawlVars, fetchVars, listVars,
               mainVars, imageVars, downloadVars>>

(***************************************************************************)
(* ImageGrabber.__init__                                                   *)
(***************************************************************************)
\* self.current_delay = 3.0, self.min_delay = 2.0, self.max_delay = 15.0
InitialDelay == <<3, 1>>
MinDelay == <<2, 1>>
MaxDelay == <<15, 1>>

\* the fields set by the constructor; scraper=None makes the grabber create
\* and own its session, an injected scraper is not owned
GrabberConstructed ==
    /\ consecutive_failures = 0
    /\ current_delay = InitialDelay
    /\ success_count = 0
    /\ scraper = 0
    /\ own_scraper \in BOOLEAN
    /\ disable_delays \in BOOLEAN
    /\ closed = {}

\* no grabber takes part
GrabberIdle ==
    /\ page_num = 0 /\ disable_delays = FALSE /\ consecutive_failures = 0
    /\ current_delay = InitialDelay /\ success_count = 0
    /\ scraper = 0 /\ own_scraper = FALSE /\ closed = {}

NoSleep == [kind |-> "none", t |-> 0]

Tasks == 1..MaxUrls
NoResult == [success |-> FALSE, img_name |-> <<>>, error_info |-> <<>>]

ListIdle ==
    /\ d_pc = "none" /\ d_n = 0 /\ d_img_list = <<>> /\ d_failed = <<>>
    /\ d_doneq = <<>> /\ sem = 0 /\ rate_lock = 0
    /\ last_request_time = [type |-> "float", v |-> 0]
    /\ now = 0
    /\ t_pc = [i \in Tasks |-> "none"]
    /\ t_wake = [i \in Tasks |-> 0]
    /\ t_result = [i \in Tasks |-> NoResult]
    /\ zip_calls = 0 /\ zip_arg = <<>>

\* status codes are integers; None (no response object) and a raised
\* exception are encoded beside them
NoneResult == 0
Raised == -1

CrawlIdle ==
    /\ c_pc = "none" /\ c_page = 0 /\ c_attempt = 0 /\ c_result = NoneResult
    /\ c_url = 0 /\ c_yielded = <<>> /\ c_gets = 0
    /\ c_slept = NoSleep

Callers == 1..NumCallers

FetchIdle ==
    /\ f_pc = [w \in Callers |-> "idle"]
    /\ f_attempt = [w \in Callers |-> 0]
    /\ f_session = [w \in Callers |-> 0]
    /\ f_current_failures = [w \in Callers |-> 0]
    /\ f_ret = [w \in Callers |-> NoneResult]
    /\ f_last = [w \in Callers |-> NoneResult]
    /\ f_gets = [w \in Callers |-> 0]
    /\ f_sleeps = [w \in Callers |-> 0]
    /\ f_slept = [w \in Callers |-> NoSleep]

\* async_main is not running
MainIdle ==
    /\ m_pc = "none" /\ url_set = FALSE /\ valid = FALSE
    /\ title_set = FALSE /\ img_link_set = FALSE /\ resolved = FALSE
    /\ tag = "unset" /\ subtag = "unset"
    /\ r_attempt = 0 /\ r_last = NoneResult /\ r_gets = 0 /\ r_sleeps = 0
    /\ r_slept = NoSleep

\* no call of _download_single_image
ImageIdle ==
    /\ i_pc = [k \in Callers |-> "idle"]
    /\ i_url = [k \in Callers |-> <<>>]
    /\ i_calls = [k \in Callers |-> <<>>]
    /\ i_index = [k \in Callers |-> 0]
    /\ i_effective_url = [k \in Callers |-> <<>>]
    /\ i_effective_extension = [k \in Callers |-> <<>>]
    /\ i_saves = [k \in Callers |-> 0]
    /\ i_result = [k \in Callers |-> NoResult]
    /\ files = {}

\* no call of _create_zip
ZipIdle ==
    /\ z_pc = "none" /\ z_img_list = <<>> /\ zip_only = FALSE /\ z_pos = 0
    /\ z_archives = <<>> /\ z_open = FALSE /\ z_entries = <<>>
    /\ z_removes = <<>> /\ z_files = {}

\* no call of download()
DownloadIdle ==
    /\ p_pc = "none" /\ mode = "unset" /\ p_passes = <<>>

(***************************************************************************)
(* SpecURL: URLProcessor                                                   *)
(***************************************************************************)
FnAlphabet == {"0", "1", "a"}
Ext == <<".", "j", "p", "g">>
Dirs == { <<"/", "/", "h", "/">>, <<"/", "/", "h", "1", "/">> }
SampleFns == UNION {[1..n -> FnAlphabet] : n \in 1..MaxFnLen}
SampleURLs == {d \o b \o Ext : d \in Dirs, b \in SampleFns}
Seps == { <<>>, <<"-">>, <<"_">> }

URLIdle ==
    /\ data_url = <<>> /\ pnum = 0 /\ template = <<>> /\ num_vars = 0
    /\ n_digits = <<>> /\ u_pc = "none" /\ gen_kind = "none"
    /\ gen_sep = <<>> /\ gen_i = 0 /\ generated = <<>>

InitURL ==
    /\ data_url \in SampleURLs
    /\ pnum \in 0..MaxPageNum
    /\ template = <<>> /\ num_vars = 0 /\ n_digits = <<>>
    /\ u_pc = "new"
    /\ gen_kind = "none" /\ gen_sep = <<>> /\ gen_i = 0
    /\ generated = <<>>
    /\ GrabberIdle /\ CrawlIdle /\ FetchIdle /\ ListIdle /\ MainIdle /\ ImageIdle
    /\ ZipIdle /\ DownloadIdle

\* URLProcessor.__init__
URLProcessorInit ==
    /\ u_pc = "new"
    /\ IF GenerateTemplateRaises(data_url)
       THEN /\ u_pc' = "KeyError"
            /\ num_vars' = NumVars(data_url)
            /\ n_digits' = NDigits(data_url)
            /\ UNCHANGED template
       ELSE /\ u_pc' = "ready"
            /\ num_vars' = NumVars(data_url)
            /\ n_digits' = NDigits(data_url)
            /\ template' = GenerateTemplate(data_url)
    /\ UNCHANGED <<data_url, pnum, gen_kind, gen_sep, gen_i, generated>>
    /\ UNCHANGED notUrlVars

\* a call of normal_url_list(): a fresh generator
CallNormalUrlList ==
    /\ u_pc = "ready"
    /\ u_pc' = "iter"
    /\ gen_kind' = "normal" /\ gen_sep' = <<>> /\ gen_i' = 0
    /\ generated' = <<>>
    /\ UNCHANGED <<data_url, pnum, template, num_vars, n_digits>>
    /\ UNCHANGED notUrlVars

\* a call of special_url_list(sep)
CallSpecialUrlList ==
    /\ u_pc = "ready"
    /\ \E sep \in Seps : gen_sep' = sep
    /\ u_pc' = "iter"
    /\ gen_kind' = "special" /\ gen_i' = 0
    /\ generated' = <<>>
    /\ UNCHANGED <<data_url, pnum, template, num_vars, n_digits>>
    /\ UNCHANGED notUrlVars

NormalUrl(i) == Format(template, NormalRepDict(i, num_vars, n_digits))
SpecialUrl(j, sep) ==
    Format(template, SpecialRepDict(SpCList[j], sep, num_vars, n_digits))

\* next() on the normal generator: one more URL, or StopIteration
NormalNext ==
    /\ u_pc = "iter" /\ gen_kind = "normal"
    /\ IF gen_i \in NormalRange(pnum)
       THEN IF FormatOK(template, VarNames(num_vars), 1)
            THEN /\ generated' = Append(generated, NormalUrl(gen_i))
                 /\ gen_i' = gen_i + 1
                 /\ UNCHANGED u_pc
            ELSE /\ u_pc' = "KeyError"
                 /\ UNCHANGED <<generated, gen_i>>
       ELSE /\ u_pc' = "exhausted"
            /\ UNCHANGED <<generated, gen_i>>
    /\ UNCHANGED <<data_url, pnum, template, num_vars, n_digits, gen_kind, gen_sep>>
    /\ UNCHANGED notUrlVars

\* next() on the special generator
SpecialNext ==
    /\ u_pc = "iter" /\ gen_kind = "special"
    /\ IF gen_i < Len(SpCList)
       THEN IF FormatOK(template, VarNames(num_vars), 1)
            THEN /\ generated' = Append(generated, SpecialUrl(gen_i + 1, gen_sep))
                 /\ gen_i' = gen_i + 1
                 /\ UNCHANGED u_pc
            ELSE /\ u_pc' = "KeyError"
                 /\ UNCHANGED <<generated, gen_i>>
       ELSE /\ u_pc' = "exhausted"
            /\ UNCHANGED <<generated, gen_i>>
    /\ UNCHANGED <<data_url, pnum, template, num_vars, n_digits, gen_kind, gen_sep>>
    /\ UNCHANGED notUrlVars

\* the consumer drops the exhausted generator; another list may be requested
DropGenerator ==
    /\ u_pc = "exhausted"
    /\ u_pc' = "ready"
    /\ UNCHANGED <<data_url, pnum, template, num_vars, n_digits,
                   gen_kind, gen_sep, gen_i, generated>>
    /\ UNCHANGED notUrlVars

NextURL ==
    \/ URLProcessorInit
    \/ CallNormalUrlList
    \/ CallSpecialUrlList
    \/ NormalNext
    \/ SpecialNext
    \/ DropGenerator

SpecURL == InitURL /\ [][NextURL]_vars


(***************************************************************************)
(* Claims on the URL template engine                                       *)
(***************************************************************************)
RECURSIVE Pow10(_)
Pow10(k) == IF k = 0 THEN 1 ELSE 10 * Pow10(k - 1)

\* number of decimal digits of i >= 0
RECURSIVE NumLen(_)
NumLen(i) == IF i < 10 THEN 1 ELSE 1 + NumLen(i \div 10)

\* the decimal numeral of i, left-padded with zeros to at least w characters
PaddedNumeral(i, w) ==
    LET W == IF NumLen(i) > w THEN NumLen(i) ELSE w
    IN  [j \in 1..W |-> DigitSeq[((i \div Pow10(W - j)) % 10) + 1]]

\* decimal value of a digit string
RECURSIVE NumeralValue(_)
NumeralValue(s) ==
    IF s = <<>> THEN 0
    ELSE 10 * NumeralValue(SubSeq(s, 1, Len(s) - 1))
         + (CHOOSE d \in 0..9 : DigitSeq[d + 1] = s[Len(s)])

\* u is t with every placeholder {vark} replaced by the numeral of i padded
\* to width nd[k+1]
RECURSIVE FilledBy(_, _, _, _)
FilledBy(t, u, i, nd) ==
    IF t = <<>> THEN u = <<>>
    ELSE IF Head(t) = "{"
         THEN LET c == CHOOSE q \in 1..Len(t) :
                          /\ t[q] = "}"
                          /\ \A r \in 1..(q - 1) : t[r] # "}"
                  k == NumeralValue(SubSeq(t, 5, c - 1))
                  pad == PaddedNumeral(i, nd[k + 1])
              IN  /\ Len(u) >= Len(pad)
                  /\ SubSeq(u, 1, Len(pad)) = pad
                  /\ FilledBy(SubSeq(t, c + 1, Len(t)),
                              SubSeq(u, Len(pad) + 1, Len(u)), i, nd)
         ELSE /\ u # <<>>
              /\ Head(u) = Head(t)
              /\ FilledBy(Tail(t), Tail(u), i, nd)

\* C3: normal_url_list yields exactly pnum + 1 URLs, for i = 0..pnum in
\* ascending order, and URL i is the template with every placeholder k
\* replaced by str(i) zero-padded to the width of run k.
C3_NormalSequence ==
    (gen_kind = "normal" /\ u_pc \in {"iter", "exhausted"}) =>
        /\ Len(generated) <= pnum + 1
        /\ \A j \in 1..Len(generated) :
               FilledBy(template, generated[j], j - 1, n_digits)
        /\ (u_pc = "exhausted" => Len(generated) = pnum + 1)

C3_Witness ==
    /\ gen_kind = "normal" /\ u_pc = "exhausted"
    /\ pnum = MaxPageNum /\ num_vars = 2
    /\ Len(generated) = pnum + 1

\* the sample URL holds exactly one digit run: its digit positions form one
\* non-empty interval
DigitPositions(url) == {p \in 1..Len(url) : IsDigit(url[p])}
RunFirst(url) == CHOOSE p \in DigitPositions(url) : \A q \in DigitPositions(url) : p <= q
RunLast(url) == CHOOSE p \in DigitPositions(url) : \A q \in DigitPositions(url) : q <= p
ExactlyOneRun(url) ==
    /\ DigitPositions(url) # {}
    /\ DigitPositions(url) = RunFirst(url)..RunLast(url)

RunReplaced(url, i) ==
    SubSeq(url, 1, RunFirst(url) - 1)
        \o PaddedNumeral(i, RunLast(url) - RunFirst(url) + 1)
        \o SubSeq(url, RunLast(url) + 1, Len(url))

\* C4 as stated: with exactly one digit run of width w the normal sequence
\* holds exactly pnum + 2 URLs, each the sample with the run replaced by
\* str(i).zfill(w).
C4_Original ==
    (gen_kind = "normal" /\ u_pc = "exhausted" /\ ExactlyOneRun(data_url)) =>
        /\ Len(generated) = pnum + 2
        /\ \A j \in 1..Len(generated) : generated[j] = RunReplaced(data_url, j - 1)

\* C4 amended: with exactly one digit run of width w the normal sequence
\* holds exactly pnum + 1 URLs (indices 0..pnum), each the sample with the
\* run replaced by str(i).zfill(w).
C4_NormalSequenceOneRun ==
    (gen_kind = "normal" /\ u_pc \in {"iter", "exhausted"}
        /\ ExactlyOneRun(data_url)) =>
        /\ \A j \in 1..Len(generated) : generated[j] = RunReplaced(data_url, j - 1)
        /\ (u_pc = "exhausted" => Len(generated) = pnum + 1)

C4_Witness ==
    /\ gen_kind = "normal" /\ u_pc = "exhausted"
    /\ ExactlyOneRun(data_url)
    /\ RunLast(data_url) - RunFirst(data_url) + 1 = 2
    /\ pnum = 3 /\ Len(generated) = 4

\* the fixed symbol order of the special sequence
SymbolOrder == <<"a", "b", "c", "d", "e", "f", "g",
                 "A", "B", "C", "D", "E", "F", "G",
                 "0", "1", "2", "3", "4", "5", "6">>

\* v is u with the string ins inserted after position p
InsertedAfter(u, v, p, ins) ==
    v = SubSeq(u, 1, p) \o ins \o SubSeq(u, p + 1, Len(u))

\* C5: special_url_list with no separator yields exactly 21 URLs in the
\* fixed symbol order; URL j is the zero-index normal URL with symbol j
\* inserted after a zero-padded zero, and differs from it in nothing else.
C5_SpecialNoSeparator ==
    (gen_kind = "special" /\ gen_sep = <<>> /\ u_pc \in {"iter", "exhausted"}) =>
        /\ \A j \in 1..Len(generated) :
               \E p \in 1..Len(NormalUrl(0)) :
                   /\ NormalUrl(0)[p] = "0"
                   /\ InsertedAfter(NormalUrl(0), generated[j], p, <<SymbolOrder[j]>>)
        /\ (u_pc = "exhausted" => Len(generated) = 21)

\* C6: with separator "-" or "_" the special sequence has 21 URLs and URL j
\* is the j-th URL of the no-separator sequence with the separator inserted
\* immediately before the appended symbol.
C6_SpecialWithSeparator ==
    (gen_kind = "special" /\ gen_sep # <<>> /\ u_pc \in {"iter", "exhausted"}) =>
        /\ \A j \in 1..Len(generated) :
               \E p \in 0..(Len(SpecialUrl(j, <<>>)) - 1) :
                   /\ SpecialUrl(j, <<>>)[p + 1] = SymbolOrder[j]
                   /\ InsertedAfter(SpecialUrl(j, <<>>), generated[j], p, gen_sep)
        /\ (u_pc = "exhausted" => Len(generated) = 21)


(***************************************************************************)
(* SpecCrawl: ImageGrabber._page_crawl, consumed by the async for of       *)
(* _download_list                                                          *)
(***************************************************************************)
Statuses == {200, 403, 404, 429, 500, 503}
Blocked == {403, 503, 429}

\* max_retries = 3
CrawlMaxRetries == 3

\* the success branch of the rate controller (counter and delay)
\* mutant: the delay is not floored at min_delay
OnSuccessDelayNoFloor(delay, count) ==
    IF count + 1 >= 5 /\ RLess(MinDelay, delay)
    THEN RMul(delay, 9, 10)
    ELSE delay

OnSuccessDelay(delay, count) ==
    IF count + 1 >= 5 /\ RLess(MinDelay, delay)
    THEN RMax(MinDelay, RMul(delay, 9, 10))
    ELSE delay

\* mutant: the counter is not reset after a decay
OnSuccessCountNoReset(delay, count) == count + 1

OnSuccessCount(delay, count) ==
    IF count + 1 >= 5 /\ RLess(MinDelay, delay) THEN 0 ELSE count + 1

\* mutant: the delay is not capped at max_delay
OnBlockedDelayNoCap(delay) == RMul(delay, 3, 2)

\* self.current_delay = min(self.max_delay, self.current_delay * 1.5)
OnBlockedDelay(delay) == RMin(MaxDelay, RMul(delay, 3, 2))

\* wait_time = min(10 * (3**attempt), 60)
CrawlWaitTime(attempt) ==
    IF 10 * (3 ^ attempt) < 60 THEN 10 * (3 ^ attempt) ELSE 60

\* _refresh_scraper: a new owned session replaces self.scraper and the old
\* one is closed if it was owned.  Sessions are named by small numbers: 0 is
\* the one __init__ set, a new session takes the least name above 0 that
\* neither self.scraper nor a request in flight (inuse) refers to.
RefreshedScraper(inuse) ==
    CHOOSE i \in 1..(Cardinality(inuse) + 2) :
        /\ i \notin (inuse \cup {scraper})
        /\ \A j \in 1..(i - 1) : j \in (inuse \cup {scraper})

RefreshedClosed(inuse) ==
    (closed \ {RefreshedScraper(inuse)})
        \cup (IF own_scraper THEN {scraper} ELSE {})

\* the page counts a crawled gallery is given
CrawlPageCounts == 0..MaxCrawlPages

CrawlNotStarted ==
    /\ URLIdle /\ FetchIdle /\ ListIdle /\ MainIdle /\ ImageIdle
    /\ ZipIdle /\ DownloadIdle
    /\ GrabberConstructed
    /\ c_pc = "start" /\ c_page = 0 /\ c_attempt = 0 /\ c_result = NoneResult
    /\ c_url = 1 /\ c_yielded = <<>> /\ c_gets = 0
    /\ c_slept = NoSleep

InitCrawl ==
    /\ CrawlNotStarted
    /\ page_num \in CrawlPageCounts

\* one turn of "for page_num in range(self.page_num)" up to its first
\* await: the delay before every page but the first (its jittered duration
\* is not recorded), result = None, attempt = 0; or the end of the generator
CrawlIterate(page) ==
    /\ c_page' = page
    /\ IF page < page_num
       THEN /\ c_pc' = "get"
            /\ c_slept' = IF page > 0 /\ ~disable_delays
                          THEN [kind |-> "page", t |-> 0] ELSE c_slept
            /\ c_attempt' = 0
            /\ c_result' = NoneResult
            /\ c_gets' = 0
       ELSE /\ c_pc' = "exhausted"
            /\ UNCHANGED c_slept

\* the consumer's first request for an element
CrawlStart ==
    /\ c_pc = "start"
    /\ CrawlIterate(0)
    /\ IF 0 < page_num THEN TRUE ELSE UNCHANGED <<c_attempt, c_result, c_gets>>
    /\ UNCHANGED <<c_url, c_yielded>>
    /\ UNCHANGED <<grabberVars, notCrawlVars>>

\* a crawler that moves on to the next page of the chain when it skips one
CrawlAfterAttemptsSkipping(res, gets, wellformed) ==
    IF res = NoneResult \/ res # 200 \/ ~wellformed
    THEN /\ CrawlIterate(c_page + 1)
         /\ IF c_page + 1 < page_num THEN TRUE
            ELSE /\ c_result' = res /\ c_gets' = gets /\ UNCHANGED c_attempt
         /\ c_url' = c_url + 1
    ELSE /\ c_pc' = "yield"
         /\ c_url' = c_url + 1
         /\ c_result' = res /\ c_gets' = gets
         /\ UNCHANGED <<c_page, c_attempt, c_slept>>

\* after the retry loop, with result res and gets calls made: a result that
\* is not a 200, or a 200 page without the expected markup, skips the page
\* (continue); otherwise url moves on and the image URL is yielded
CrawlAfterAttempts(res, gets, wellformed) ==
    IF res = NoneResult \/ res # 200 \/ ~wellformed
    THEN /\ CrawlIterate(c_page + 1)
         /\ IF c_page + 1 < page_num THEN TRUE
            ELSE /\ c_result' = res /\ c_gets' = gets /\ UNCHANGED c_attempt
         /\ UNCHANGED c_url
    ELSE /\ c_pc' = "yield"
         /\ c_url' = c_url + 1
         /\ c_result' = res /\ c_gets' = gets
         /\ UNCHANGED <<c_page, c_attempt, c_slept>>

\* what the markup of a 200 page can be: everything the crawler reads is
\* there; one of the elements tested against None is missing; everything
\* tested is there and the last link of div.newpage has no href attribute,
\* so next_links[-1]["href"] raises KeyError out of the generator
Markups == {"ok", "missing", "no_href"}

\* result = await self.scraper.get_async(url) answered with HTTP 200
CrawlGet200 ==
    /\ c_pc = "get"
    /\ consecutive_failures' = 0
    /\ success_count' = OnSuccessCount(current_delay, success_count)
    /\ current_delay' = OnSuccessDelay(current_delay, success_count)
    /\ \E markup \in Markups :
          IF markup = "no_href"
          THEN /\ c_pc' = "raised"
               /\ c_result' = 200 /\ c_gets' = c_gets + 1
               /\ UNCHANGED <<c_page, c_attempt, c_slept, c_url>>
          ELSE CrawlAfterAttempts(200, c_gets + 1, markup = "ok")
    /\ UNCHANGED c_yielded
    /\ UNCHANGED <<page_num, disable_delays, scraper, own_scraper, closed>>
    /\ UNCHANGED notCrawlVars

\* ... answered with HTTP 403, 503 or 429
CrawlGetBlocked ==
    /\ c_pc = "get"
    /\ consecutive_failures' = consecutive_failures + 1
    /\ success_count' = 0
    /\ current_delay' = OnBlockedDelay(current_delay)
    /\ \E st \in Blocked :
        IF c_attempt < CrawlMaxRetries - 1
        THEN /\ c_pc' = "backoff"
             /\ c_slept' = [kind |-> "backoff", t |-> CrawlWaitTime(c_attempt)]
             /\ c_result' = st
             /\ c_gets' = c_gets + 1
             /\ UNCHANGED <<c_page, c_url, c_attempt>>
        ELSE CrawlAfterAttempts(st, c_gets + 1, TRUE)
    /\ UNCHANGED c_yielded
    /\ UNCHANGED <<page_num, disable_delays, scraper, own_scraper, closed>>
    /\ UNCHANGED notCrawlVars

\* ... answered with any other status: break
CrawlGetOther ==
    /\ c_pc = "get"
    /\ \E st \in Statuses \ (Blocked \cup {200}) :
        CrawlAfterAttempts(st, c_gets + 1, TRUE)
    /\ UNCHANGED c_yielded
    /\ UNCHANGED <<grabberVars, notCrawlVars>>

\* ... raising: result keeps its value; sleep 5 and retry, or give up
CrawlGetException ==
    /\ c_pc = "get"
    /\ IF c_attempt < CrawlMaxRetries - 1
       THEN /\ c_pc' = "errsleep"
            /\ c_slept' = [kind |-> "error", t |-> 5]
            /\ c_gets' = c_gets + 1
            /\ UNCHANGED <<c_page, c_url, c_attempt, c_result>>
       ELSE CrawlAfterAttempts(c_result, c_gets + 1, TRUE)
    /\ UNCHANGED c_yielded
    /\ UNCHANGED <<grabberVars, notCrawlVars>>

\* the backoff sleep ends: refresh the session after the 2nd attempt when
\* more than 2 consecutive failures, then the next attempt
CrawlBackoffEnds ==
    /\ c_pc = "backoff"
    /\ IF c_attempt = 1 /\ consecutive_failures > 2
       THEN /\ scraper' = RefreshedScraper({})
            /\ own_scraper' = TRUE
            /\ closed' = RefreshedClosed({})
       ELSE UNCHANGED <<scraper, own_scraper, closed>>
    /\ c_attempt' = c_attempt + 1
    /\ c_pc' = "get"
    /\ UNCHANGED <<c_page, c_result, c_url, c_yielded, c_gets, c_slept>>
    /\ UNCHANGED <<page_num, disable_delays, consecutive_failures,
                   current_delay, success_count>>
    /\ UNCHANGED notCrawlVars

\* the sleep after an exception ends: the next attempt
CrawlErrorSleepEnds ==
    /\ c_pc = "errsleep"
    /\ c_attempt' = c_attempt + 1
    /\ c_pc' = "get"
    /\ UNCHANGED <<c_page, c_result, c_url, c_yielded, c_gets, c_slept>>
    /\ UNCHANGED <<grabberVars, notCrawlVars>>

\* yield img_url: the consumer appends it and asks for the next element
CrawlYield ==
    /\ c_pc = "yield"
    /\ c_yielded' = Append(c_yielded, c_url - 1)
    /\ CrawlIterate(c_page + 1)
    /\ IF c_page + 1 < page_num THEN TRUE ELSE UNCHANGED <<c_attempt, c_result, c_gets>>
    /\ UNCHANGED c_url
    /\ UNCHANGED <<grabberVars, notCrawlVars>>

NextCrawl ==
    \/ CrawlStart
    \/ CrawlGet200
    \/ CrawlGetBlocked
    \/ CrawlGetOther
    \/ CrawlGetException
    \/ CrawlBackoffEnds
    \/ CrawlErrorSleepEnds
    \/ CrawlYield

SpecCrawl == InitCrawl /\ [][NextCrawl]_vars

\* A crawl of a gallery long enough for the delay to decay to min_delay,
\* with the command line's defaults (own session, delays enabled)
InitLongCrawl ==
    /\ CrawlNotStarted
    /\ page_num = LongCrawlPages
    /\ own_scraper /\ ~disable_delays

SpecLongCrawl == InitLongCrawl /\ [][NextCrawl]_vars

(***************************************************************************)
(* Claims on the adaptive delay                                            *)
(***************************************************************************)
\* q = 0.9 * r and q = 1.5 * r on rationals in lowest terms
IsNineTenthsOf(q, r) == q = Rat(9 * r[1], 10 * r[2])
IsThreeHalvesOf(q, r) == q = Rat(3 * r[1], 2 * r[2])

\* r < q on positive rationals, comparing integer parts and then the
\* reciprocals of the fractional parts (no large products)
RECURSIVE Below(_, _)
Below(r, q) ==
    LET ir == r[1] \div r[2]
        iq == q[1] \div q[2]
        fr == r[1] % r[2]
        fq == q[1] % q[2]
    IN  IF ir # iq THEN ir < iq
        ELSE IF fq = 0 THEN FALSE
        ELSE IF fr = 0 THEN TRUE
        ELSE Below(<<q[2], fq>>, <<r[2], fr>>)
Two == <<2, 1>>
Fifteen == <<15, 1>>

\* C7: from the defaults, min_delay <= current_delay <= max_delay in every
\* reachable state.
C7_DelayInRange ==
    /\ ~Below(current_delay, Two)
    /\ ~Below(Fifteen, current_delay)

\* the delay has gone up to the cap and decayed again
C7_Witness ==
    /\ c_pc = "exhausted"
    /\ Below(Two, current_delay) /\ Below(current_delay, Fifteen)
    /\ Below(<<27, 2>>, current_delay)

\* C8 as stated: a success report resets the failure counter and increments
\* the success counter; every 5th consecutive success multiplies the delay by
\* 0.9, floored at min_delay, and resets the success counter to 0.
C8_Original ==
    [][CrawlGet200 =>
        /\ consecutive_failures' = 0
        /\ IF success_count + 1 = 5
           THEN /\ success_count' = 0
                /\ IF Below(Two, RMul(current_delay, 9, 10))
                   THEN IsNineTenthsOf(current_delay', current_delay)
                   ELSE current_delay' = Two
           ELSE /\ success_count' = success_count + 1
                /\ current_delay' = current_delay]_vars

\* C8 amended: a success report resets the failure counter and increments the
\* success counter; when that brings the counter to 5 or more while the delay
\* is above min_delay, the delay is multiplied by 0.9, floored at min_delay
\* (it strictly decreases) and the counter is reset to 0; while the delay is
\* at min_delay the counter is not reset and keeps counting.
C8_SuccessReport ==
    [][CrawlGet200 =>
        /\ consecutive_failures' = 0
        /\ IF success_count + 1 >= 5 /\ Below(Two, current_delay)
           THEN /\ success_count' = 0
                /\ Below(current_delay', current_delay)
                /\ \/ IsNineTenthsOf(current_delay', current_delay)
                   \/ /\ current_delay' = Two
                      /\ ~Below(Two, RMul(current_delay, 9, 10))
           ELSE /\ success_count' = success_count + 1
                /\ current_delay' = current_delay]_vars

\* the success counter has passed 5 with the delay at the floor
C8_Witness ==
    /\ success_count >= 5
    /\ current_delay = Two

\* C9: a blocked report (403, 503, 429) resets the success counter,
\* increments the failure counter by 1 and sets the delay to
\* min(max_delay, 1.5 * delay), which is a strict increase below the cap.
C9_BlockedReport ==
    [][CrawlGetBlocked =>
        /\ success_count' = 0
        /\ consecutive_failures' = consecutive_failures + 1
        /\ \/ /\ IsThreeHalvesOf(current_delay', current_delay)
              /\ ~Below(Fifteen, current_delay')
           \/ /\ current_delay' = Fifteen
              /\ Below(Fifteen, RMul(current_delay, 3, 2))
        /\ (Below(current_delay, Fifteen) => Below(current_delay, current_delay'))]_vars

\* a blocked report has capped the delay
C9_Witness ==
    /\ current_delay = Fifteen
    /\ consecutive_failures = 4
    /\ success_count = 0
    /\ c_pc = "backoff"


(***************************************************************************)
(* SpecFetch: ImageGrabber._download_image_with_retry, called once by each *)
(* of NumCallers coroutines on one grabber                                 *)
(***************************************************************************)
\* a fetcher with one more attempt
FetchMaxRetriesOneMore == 3 + 1

\* max_retries=3
FetchMaxRetries == 3

\* a wait that grows by its base with every attempt
FetchWaitTimeLinear(attempt) == 15 * (attempt + 1)

\* wait_time = min(15 * (3**attempt), 90)
FetchWaitTime(attempt) ==
    IF 15 * (3 ^ attempt) < 90 THEN 15 * (3 ^ attempt) ELSE 90

\* mutant: a 404 is retried after a short sleep like a transport error
FetchOutcomeRetry404(st, attempt) ==
    IF st = 200 THEN "return_response"
    ELSE IF st = 404 \/ st = Raised
         THEN (IF attempt < FetchMaxRetries - 1 THEN "errsleep" ELSE "return_none")
    ELSE IF st \in Blocked
         THEN (IF attempt < FetchMaxRetries - 1 THEN "backoff" ELSE "return_none")
    ELSE "return_none"

\* what one attempt's outcome (status code or Raised) leads to
FetchOutcome(st, attempt) ==
    IF st = 200 THEN "return_response"
    ELSE IF st = 404 THEN "return_none"
    ELSE IF st \in Blocked
         THEN (IF attempt < FetchMaxRetries - 1 THEN "backoff" ELSE "return_none")
    ELSE IF st = Raised
         THEN (IF attempt < FetchMaxRetries - 1 THEN "errsleep" ELSE "return_none")
    ELSE "return_none"

\* mutant: the exception of the last attempt leaves the call
FetchReturnValuePropagates(st) ==
    IF st = 200 THEN 200 ELSE IF st = Raised THEN Raised ELSE NoneResult

\* what the call returns when the attempt with outcome st was its last: the
\* response r (status 200), or None
FetchReturnValue(st) ==
    IF st = 200 THEN 200 ELSE NoneResult

\* the sessions that requests in flight were issued on, other than w's
InFlight(w) == {f_session[v] : v \in {x \in Callers \ {w} : f_pc[x] = "get"}}

InitFetch ==
    /\ URLIdle /\ CrawlIdle /\ FetchIdle /\ ListIdle /\ MainIdle /\ ImageIdle
    /\ ZipIdle /\ DownloadIdle
    /\ GrabberConstructed
    /\ ~disable_delays
    /\ page_num = 0

\* a call: attempt 0 issues get_async on the current session
FetchCall(w) ==
    /\ f_pc[w] = "idle"
    /\ f_pc' = [f_pc EXCEPT ![w] = "get"]
    /\ f_session' = [f_session EXCEPT ![w] = scraper]
    /\ f_gets' = [f_gets EXCEPT ![w] = 1]
    /\ UNCHANGED <<f_attempt, f_current_failures, f_ret, f_last, f_sleeps, f_slept>>
    /\ UNCHANGED <<grabberVars, notFetchVars>>

\* the awaited get_async ends with outcome st; what follows up to the next
\* await (a sleep) or the return.  failures is the value of the local
\* current_failures from here on; the locals end with the call (a returned
\* call holds 0 for them, as does f_session while no request is awaited)
FetchHandle(w, st, failures) ==
    /\ f_last' = [f_last EXCEPT ![w] = st]
    /\ f_session' = [f_session EXCEPT ![w] = 0]
    /\ CASE FetchOutcome(st, f_attempt[w]) = "return_response" ->
              /\ f_pc' = [f_pc EXCEPT ![w] = "returned"]
              /\ f_ret' = [f_ret EXCEPT ![w] = FetchReturnValue(st)]
              /\ f_current_failures' = [f_current_failures EXCEPT ![w] = 0]
              /\ UNCHANGED <<f_sleeps, f_slept>>
         [] FetchOutcome(st, f_attempt[w]) = "return_none" ->
              /\ f_pc' = [f_pc EXCEPT ![w] = "returned"]
              /\ f_ret' = [f_ret EXCEPT ![w] = FetchReturnValue(st)]
              /\ f_current_failures' = [f_current_failures EXCEPT ![w] = 0]
              /\ UNCHANGED <<f_sleeps, f_slept>>
         [] FetchOutcome(st, f_attempt[w]) = "backoff" ->
              /\ f_pc' = [f_pc EXCEPT ![w] = "backoff"]
              /\ f_sleeps' = [f_sleeps EXCEPT ![w] = @ + 1]
              /\ f_slept' = [f_slept EXCEPT ![w] =
                                [kind |-> "backoff", t |-> FetchWaitTime(f_attempt[w])]]
              /\ f_current_failures' = [f_current_failures EXCEPT ![w] = failures]
              /\ UNCHANGED f_ret
         [] FetchOutcome(st, f_attempt[w]) = "errsleep" ->
              /\ f_pc' = [f_pc EXCEPT ![w] = "errsleep"]
              /\ f_sleeps' = [f_sleeps EXCEPT ![w] = @ + 1]
              /\ f_slept' = [f_slept EXCEPT ![w] = [kind |-> "error", t |-> 5]]
              /\ f_current_failures' = [f_current_failures EXCEPT ![w] = failures]
              /\ UNCHANGED f_ret
    /\ UNCHANGED <<f_attempt, f_gets>>

\* HTTP 200: the failure counter is reset and the response returned
FetchGet200(w) ==
    /\ f_pc[w] = "get"
    /\ consecutive_failures' = 0
    /\ FetchHandle(w, 200, f_current_failures[w])
    /\ UNCHANGED <<page_num, disable_delays, current_delay, success_count,
                   scraper, own_scraper, closed>>
    /\ UNCHANGED notFetchVars

\* HTTP 404: return None
FetchGet404(w) ==
    /\ f_pc[w] = "get"
    /\ FetchHandle(w, 404, f_current_failures[w])
    /\ UNCHANGED <<grabberVars, notFetchVars>>

\* HTTP 403, 503 or 429: count the failure, then back off or give up
FetchGetBlocked(w) ==
    /\ f_pc[w] = "get"
    /\ consecutive_failures' = consecutive_failures + 1
    /\ \E st \in Blocked : FetchHandle(w, st, consecutive_failures + 1)
    /\ UNCHANGED <<page_num, disable_delays, current_delay, success_count,
                   scraper, own_scraper, closed>>
    /\ UNCHANGED notFetchVars

\* any other status: return None
FetchGetOther(w) ==
    /\ f_pc[w] = "get"
    /\ \E st \in Statuses \ (Blocked \cup {200, 404}) :
           FetchHandle(w, st, f_current_failures[w])
    /\ UNCHANGED <<grabberVars, notFetchVars>>

\* get_async raised: sleep 5 and retry, or give up
FetchGetException(w) ==
    /\ f_pc[w] = "get"
    /\ FetchHandle(w, Raised, f_current_failures[w])
    /\ UNCHANGED <<grabberVars, notFetchVars>>

\* the backoff sleep ends: with more than 3 failures counted at the time of
\* the response, refresh the session and reset the counter; then the next
\* attempt issues get_async on the session held now
FetchBackoffEnds(w) ==
    /\ f_pc[w] = "backoff"
    /\ IF f_current_failures[w] > 3
       THEN /\ scraper' = RefreshedScraper(InFlight(w))
            /\ own_scraper' = TRUE
            /\ closed' = RefreshedClosed(InFlight(w))
            /\ consecutive_failures' = 0
       ELSE UNCHANGED <<scraper, own_scraper, closed, consecutive_failures>>
    /\ f_attempt' = [f_attempt EXCEPT ![w] = @ + 1]
    /\ f_pc' = [f_pc EXCEPT ![w] = "get"]
    /\ f_session' = [f_session EXCEPT ![w] = scraper']
    /\ f_gets' = [f_gets EXCEPT ![w] = @ + 1]
    /\ f_slept' = [f_slept EXCEPT ![w] = NoSleep]
    /\ UNCHANGED <<f_current_failures, f_ret, f_last, f_sleeps>>
    /\ UNCHANGED <<page_num, disable_delays, current_delay, success_count>>
    /\ UNCHANGED notFetchVars

\* the sleep after an exception ends: the next attempt
FetchErrorSleepEnds(w) ==
    /\ f_pc[w] = "errsleep"
    /\ f_attempt' = [f_attempt EXCEPT ![w] = @ + 1]
    /\ f_pc' = [f_pc EXCEPT ![w] = "get"]
    /\ f_session' = [f_session EXCEPT ![w] = scraper]
    /\ f_gets' = [f_gets EXCEPT ![w] = @ + 1]
    /\ f_slept' = [f_slept EXCEPT ![w] = NoSleep]
    /\ UNCHANGED <<f_current_failures, f_ret, f_last, f_sleeps>>
    /\ UNCHANGED <<grabberVars, notFetchVars>>

NextFetch ==
    \E w \in Callers :
        \/ FetchCall(w)
        \/ FetchGet200(w)
        \/ FetchGet404(w)
        \/ FetchGetBlocked(w)
        \/ FetchGetOther(w)
        \/ FetchGetException(w)
        \/ FetchBackoffEnds(w)
        \/ FetchErrorSleepEnds(w)

SpecFetch == InitFetch /\ [][NextFetch]_vars

(***************************************************************************)
(* Claims on the image fetcher                                             *)
(***************************************************************************)
\* C10: an HTTP 404 on any attempt ends the fetch of that URL at once: the
\* call has returned None, and it made no sleep and no request beyond those
\* of the attempts before the 404.
C10_NotFoundEndsFetch ==
    \A w \in Callers :
        f_last[w] = 404 =>
            /\ f_pc[w] = "returned"
            /\ f_ret[w] = NoneResult
            /\ f_gets[w] = f_attempt[w] + 1
            /\ f_sleeps[w] = f_attempt[w]

\* a 404 on the last attempt, after two attempts that were retried
C10_Witness ==
    \E w \in Callers :
        /\ f_last[w] = 404
        /\ f_attempt[w] = 2
        /\ f_pc[w] = "returned"
        /\ f_sleeps[w] = 2

\* C11: every 403/503/429 response a fetch receives, on any attempt and the
\* last one included, is followed by a backoff wait of that fetch before it
\* retries or gives up.
C11_BlockedAlwaysWaits ==
    [][\A w \in Callers :
          (f_pc[w] = "get" /\ f_pc'[w] # "get" /\ f_last'[w] \in Blocked) =>
              /\ f_pc'[w] = "backoff"
              /\ f_sleeps'[w] = f_sleeps[w] + 1]_vars

\* C12: whatever the outcomes of the attempts, the image fetch makes at most
\* three requests and ends by returning: the 200 response when its last
\* outcome was a 200 and None otherwise; no exception leaves the call.
C12_FetchReturnsNeverRaises ==
    \A w \in Callers :
        /\ f_gets[w] <= FetchMaxRetries
        /\ f_ret[w] \in {200, NoneResult}
        /\ f_pc[w] = "returned" =>
               /\ f_last[w] \in Statuses \cup {Raised}
               /\ (f_ret[w] = 200 <=> f_last[w] = 200)
               /\ (f_last[w] \in Blocked \cup {Raised} => f_gets[w] = FetchMaxRetries)

\* three attempts that all raised: the call returned None
C12_Witness ==
    \E w \in Callers :
        /\ f_pc[w] = "returned"
        /\ f_last[w] = Raised
        /\ f_gets[w] = FetchMaxRetries
        /\ f_ret[w] = NoneResult


(***************************************************************************)
(* Spec: ImageGrabber._download_list over a materialized URL list          *)
(***************************************************************************)
\* semaphore = asyncio.Semaphore(3)
SemaphorePermits == 3

\* int(name) of a digit string
RECURSIVE IntValue(_)
IntValue(name) ==
    IF name = <<>> THEN 0
    ELSE 10 * IntValue(SubSeq(name, 1, Len(name) - 1))
         + (CHOOSE d \in 0..9 : DigitSeq[d + 1] = name[Len(name)])

\* filename.partition(".")[0]
Stem(filename) ==
    LET dots == {p \in 1..Len(filename) : filename[p] = "."}
    IN  IF dots = {} THEN filename
        ELSE SubSeq(filename, 1, (CHOOSE p \in dots : \A q \in dots : p <= q) - 1)

\* _safe_sort_key: <<0, int(name)>>, or <<1, 0>> for float("inf") when the
\* stem is not a numeral
SafeSortKey(filename) ==
    LET name == Stem(filename)
    IN  IF name # <<>> /\ \A p \in 1..Len(name) : IsDigit(name[p])
        THEN <<0, IntValue(name)>>
        ELSE <<1, 0>>

KeyLess(a, b) == a[1] < b[1] \/ (a[1] = b[1] /\ a[2] < b[2])

\* list.sort(key=_safe_sort_key): stable, ascending
RECURSIVE SortedByKey(_)
SortedByKey(l) ==
    IF l = <<>> THEN <<>>
    ELSE LET front == SortedByKey(SubSeq(l, 1, Len(l) - 1))
             x == l[Len(l)]
             keep == {p \in 1..Len(front) : ~KeyLess(SafeSortKey(x), SafeSortKey(front[p]))}
             k == Cardinality(keep)
         IN  SubSeq(front, 1, k) \o <<x>> \o SubSeq(front, k + 1, Len(front))

\* the least whole number of ticks that is no less than the rational r
CeilR(r) == IF r[1] % r[2] = 0 THEN r[1] \div r[2] ELSE (r[1] \div r[2]) + 1

InitList ==
    /\ URLIdle /\ CrawlIdle /\ FetchIdle /\ MainIdle /\ ImageIdle
    /\ ZipIdle /\ DownloadIdle
    /\ GrabberConstructed
    /\ page_num = 0
    /\ d_pc = "start"
    /\ d_n \in 0..MaxUrls
    /\ d_img_list = <<>> /\ d_failed = <<>> /\ d_doneq = <<>>
    /\ sem = 0 /\ rate_lock = 0
    /\ last_request_time = [type |-> "float", v |-> 0]
    /\ now = 1
    /\ t_pc = [i \in Tasks |-> "none"]
    /\ t_wake = [i \in Tasks |-> 0]
    /\ t_result = [i \in Tasks |-> NoResult]
    /\ zip_calls = 0 /\ zip_arg = <<>>

\* mutant: no early return for an empty list; the loop over no task ends at
\* once and the empty img_list goes to _create_zip
DownloadListStartNoEmptyCheck ==
    /\ d_pc = "start"
    /\ IF d_n = 0
       THEN /\ d_pc' = "returned"
            /\ sem' = SemaphorePermits
            /\ zip_calls' = zip_calls + 1
            /\ UNCHANGED <<rate_lock, last_request_time, t_pc>>
       ELSE /\ d_pc' = "gather"
            /\ sem' = SemaphorePermits
            /\ rate_lock' = 0
            /\ last_request_time' = [type |-> "float", v |-> 0]
            /\ t_pc' = [i \in Tasks |-> IF i <= d_n THEN "pending" ELSE "none"]
            /\ UNCHANGED zip_calls
    /\ UNCHANGED <<d_n, d_img_list, d_failed, d_doneq, now, t_wake, t_result,
                   zip_arg>>
    /\ UNCHANGED <<grabberVars, notListVars>>

\* urls = list(url_iterator); if not urls: return; the semaphore, the lock,
\* last_request_time = [0.0] and then last_request_time = 0.0; one task per
\* URL, handed to asyncio.as_completed
DownloadListStart ==
    /\ d_pc = "start"
    /\ IF d_n = 0
       THEN /\ d_pc' = "returned"
            /\ UNCHANGED <<sem, rate_lock, last_request_time, t_pc>>
       ELSE /\ d_pc' = "gather"
            /\ sem' = SemaphorePermits
            /\ rate_lock' = 0
            /\ last_request_time' = [type |-> "float", v |-> 0]
            /\ t_pc' = [i \in Tasks |-> IF i <= d_n THEN "pending" ELSE "none"]
    /\ UNCHANGED <<d_n, d_img_list, d_failed, d_doneq, now, t_wake, t_result,
                   zip_calls, zip_arg>>
    /\ UNCHANGED <<grabberVars, notListVars>>

\* mutant: the task goes on without a free permit
TaskAcquireUngated(i) ==
    /\ t_pc[i] = "pending"
    /\ sem' = sem - 1
    /\ t_pc' = [t_pc EXCEPT ![i] = "gate1"]
    /\ UNCHANGED <<d_pc, d_n, d_img_list, d_failed, d_doneq, rate_lock,
                   last_request_time, now, t_wake, t_result, zip_calls, zip_arg>>
    /\ UNCHANGED <<grabberVars, notListVars>>

\* async with semaphore
TaskAcquireSemaphore(i) ==
    /\ t_pc[i] = "pending"
    /\ sem > 0
    /\ sem' = sem - 1
    /\ t_pc' = [t_pc EXCEPT ![i] = "gate1"]
    /\ UNCHANGED <<d_pc, d_n, d_img_list, d_failed, d_doneq, rate_lock,
                   last_request_time, now, t_wake, t_result, zip_calls, zip_arg>>
    /\ UNCHANGED <<grabberVars, notListVars>>

\* the task ends by raising TypeError: the semaphore is released and the task
\* joins the finished ones
TaskRaises(i) ==
    /\ t_pc' = [t_pc EXCEPT ![i] = "raised"]
    /\ sem' = sem + 1
    /\ d_doneq' = Append(d_doneq, i)

\* the first "async with rate_lock" block: comparing a list with 0.0 raises
\* TypeError; a float is compared, the task sleeps for what is left of
\* max(current_delay, 0.0) and then stamps last_request_time = loop.time()
TaskGate1Enter(i) ==
    /\ t_pc[i] = "gate1"
    /\ rate_lock = 0
    /\ IF last_request_time.type # "float"
       THEN /\ TaskRaises(i)
            /\ UNCHANGED <<rate_lock, last_request_time, t_wake>>
       ELSE IF /\ last_request_time.v > 0
               /\ RLess(<<0, 1>>, current_delay)
               /\ RLess(<<now - last_request_time.v, 1>>, current_delay)
            THEN /\ rate_lock' = i
                 /\ t_pc' = [t_pc EXCEPT ![i] = "gate1_sleep"]
                 /\ t_wake' = [t_wake EXCEPT ![i] =
                        now + CeilR(RAdd(current_delay,
                                         <<last_request_time.v - now, 1>>))]
                 /\ UNCHANGED <<last_request_time, sem, d_doneq>>
            ELSE /\ last_request_time' = [type |-> "float", v |-> now]
                 /\ t_pc' = [t_pc EXCEPT ![i] = "gate2"]
                 /\ UNCHANGED <<rate_lock, sem, d_doneq, t_wake>>
    /\ UNCHANGED <<d_pc, d_n, d_img_list, d_failed, now, t_result,
                   zip_calls, zip_arg>>
    /\ UNCHANGED <<grabberVars, notListVars>>

\* the sleep of the first block ends: stamp and release the lock
TaskGate1Wake(i) ==
    /\ t_pc[i] = "gate1_sleep"
    /\ now >= t_wake[i]
    /\ last_request_time' = [type |-> "float", v |-> now]
    /\ rate_lock' = 0
    /\ t_pc' = [t_pc EXCEPT ![i] = "gate2"]
    /\ UNCHANGED <<d_pc, d_n, d_img_list, d_failed, d_doneq, sem, now, t_wake,
                   t_result, zip_calls, zip_arg>>
    /\ UNCHANGED <<grabberVars, notListVars>>

\* the second "async with rate_lock" block evaluates last_request_time[0]:
\* TypeError when the name is bound to a float; with a list the task would go
\* on to _download_single_image
TaskGate2Enter(i) ==
    /\ t_pc[i] = "gate2"
    /\ rate_lock = 0
    /\ IF last_request_time.type # "list"
       THEN TaskRaises(i)
       ELSE /\ t_pc' = [t_pc EXCEPT ![i] = "download"]
            /\ UNCHANGED <<sem, d_doneq>>
    /\ UNCHANGED <<d_pc, d_n, d_img_list, d_failed, rate_lock,
                   last_request_time, now, t_wake, t_result, zip_calls, zip_arg>>
    /\ UNCHANGED <<grabberVars, notListVars>>

\* time passes while a task sleeps
Tick ==
    /\ \E i \in Tasks : t_pc[i] = "gate1_sleep" /\ now < t_wake[i]
    /\ now' = now + 1
    /\ UNCHANGED <<d_pc, d_n, d_img_list, d_failed, d_doneq, sem, rate_lock,
                   last_request_time, t_pc, t_wake, t_result, zip_calls, zip_arg>>
    /\ UNCHANGED <<grabberVars, notListVars>>

\* success, img_name, error_info = await coro: the next finished task's
\* exception is raised here and leaves _download_list; a result is appended
\* to img_list or failed_images, and after the last one img_list is sorted
\* and handed to _create_zip
DownloadListAwaitNext ==
    /\ d_pc = "gather"
    /\ d_doneq # <<>>
    /\ LET i == Head(d_doneq)
           r == t_result[i]
           imgs == IF r.success THEN Append(d_img_list, r.img_name) ELSE d_img_list
           fails == IF ~r.success /\ r.error_info # <<>>
                    THEN Append(d_failed, r.error_info) ELSE d_failed
           last == \A j \in 1..d_n : j # i => t_pc[j] = "collected"
       IN  /\ d_doneq' = Tail(d_doneq)
           /\ IF t_pc[i] = "raised"
              THEN /\ d_pc' = "raised"
                   /\ UNCHANGED <<d_img_list, d_failed, t_pc, zip_calls, zip_arg>>
              ELSE /\ t_pc' = [t_pc EXCEPT ![i] = "collected"]
                   /\ d_failed' = fails
                   /\ IF last
                      THEN /\ d_img_list' = SortedByKey(imgs)
                           /\ zip_calls' = zip_calls + 1
                           /\ zip_arg' = SortedByKey(imgs)
                           /\ d_pc' = "returned"
                      ELSE /\ d_img_list' = imgs
                           /\ UNCHANGED <<d_pc, zip_calls, zip_arg>>
    /\ UNCHANGED <<d_n, sem, rate_lock, last_request_time, now, t_wake, t_result>>
    /\ UNCHANGED <<grabberVars, notListVars>>

\* download()'s finally clause, reached when _download_list returned and when
\* its exception passes through: the scraper is closed if owned; asyncio.run
\* then cancels the tasks that have not finished
DownloadFinally ==
    /\ d_pc \in {"returned", "raised"}
    /\ d_pc' = IF d_pc = "returned" THEN "done" ELSE "failed"
    /\ closed' = closed \cup (IF own_scraper THEN {scraper} ELSE {})
    /\ t_pc' = [i \in Tasks |->
                  IF t_pc[i] \in {"pending", "gate1", "gate1_sleep", "gate2"}
                  THEN "cancelled" ELSE t_pc[i]]
    /\ sem' = sem + Cardinality({i \in Tasks : t_pc[i] \in {"gate1", "gate1_sleep", "gate2"}})
    /\ rate_lock' = 0
    /\ UNCHANGED <<d_n, d_img_list, d_failed, d_doneq, last_request_time,
                   now, t_wake, t_result, zip_calls, zip_arg>>
    /\ UNCHANGED <<page_num, disable_delays, consecutive_failures, current_delay,
                   success_count, scraper, own_scraper>>
    /\ UNCHANGED notListVars

Next ==
    \/ DownloadListStart
    \/ \E i \in Tasks : TaskAcquireSemaphore(i)
    \/ \E i \in Tasks : TaskGate1Enter(i)
    \/ \E i \in Tasks : TaskGate1Wake(i)
    \/ \E i \in Tasks : TaskGate2Enter(i)
    \/ Tick
    \/ DownloadListAwaitNext
    \/ DownloadFinally

Spec == InitList /\ [][Next]_vars

(***************************************************************************)
(* Claims on the download pipeline                                         *)
(***************************************************************************)
\* C1: a run over a non-empty URL list terminates normally: no task and no
\* run ends by raising, and a finished run has invoked archive assembly
\* exactly once.
C1_RunTerminatesNormally ==
    d_n > 0 =>
        /\ d_pc \notin {"raised", "failed"}
        /\ \A i \in 1..d_n : t_pc[i] # "raised"
        /\ (d_pc \in {"returned", "done"} => zip_calls = 1)

\* the integer index of a saved filename: the numeral before its first dot
FileIndex(filename) ==
    LET dot == CHOOSE p \in 1..Len(filename) :
                   filename[p] = "." /\ \A q \in 1..(p - 1) : filename[q] # "."
    IN  NumeralValue(SubSeq(filename, 1, dot - 1))

\* C2: whatever the completion order, when the run over a non-empty list is
\* over archive assembly has been handed the saved filenames in strictly
\* ascending order of their integer index.
C2_ArchiveOrderAscending ==
    (d_n > 0 /\ d_pc \in {"returned", "raised", "done", "failed"}) =>
        /\ zip_calls = 1
        /\ \A p, q \in 1..Len(zip_arg) :
               p < q => FileIndex(zip_arg[p]) < FileIndex(zip_arg[q])

\* the saved filenames with index idx, and the failure tuples with index idx
SavedAt(idx) == {p \in 1..Len(d_img_list) : FileIndex(d_img_list[p]) = idx}
FailedAt(idx) == {p \in 1..Len(d_failed) : d_failed[p][1] = idx}

\* C17: when a run over n URLs is over, every index 0..n-1 appears exactly
\* once, in the saved list or in the failed list, and the two lists hold n
\* entries together.
C17_EveryIndexAccounted ==
    d_pc \in {"returned", "raised", "done", "failed"} =>
        /\ Len(d_img_list) + Len(d_failed) = d_n
        /\ \A idx \in 0..(d_n - 1) :
               Cardinality(SavedAt(idx)) + Cardinality(FailedAt(idx)) = 1

\* the tasks that hold a permit of the admission gate
PastAdmission ==
    {i \in Tasks : t_pc[i] \in {"gate1", "gate1_sleep", "gate2", "download"}}

\* C18: at every moment at most 3 tasks are past the admission gate, and
\* the free permits and the admitted tasks add up to 3 while the run goes on.
C18_AtMostThreeAdmitted ==
    /\ Cardinality(PastAdmission) <= 3
    /\ sem >= 0
    /\ d_pc \in {"gather", "raised"} => sem + Cardinality(PastAdmission) = 3

\* four URLs: three tasks admitted, the fourth waits for a permit
C18_Witness ==
    /\ d_n = 4
    /\ Cardinality(PastAdmission) = 3
    /\ sem = 0
    /\ \E i \in Tasks : t_pc[i] = "pending"

\* task i leaves a block of the rate gate in this step
LeavesRateGate(i) ==
    /\ t_pc[i] \in {"gate1", "gate1_sleep", "gate2"}
    /\ t_pc'[i] \notin {t_pc[i], "gate1_sleep", "cancelled"}

\* C19: the rate gate holds at most one task; a task leaves it only with
\* last_request_time stamped with the current time, and when a stamp was
\* made before, only once current_delay has elapsed since that stamp.
C19_RateGateSpacing ==
    [][/\ Cardinality({i \in Tasks : t_pc'[i] = "gate1_sleep"}) <= 1
       /\ \A i \in Tasks :
             LeavesRateGate(i) =>
                 /\ last_request_time'.v = now'
                 /\ (last_request_time.v > 0 =>
                        RLeq(current_delay, <<now' - last_request_time.v, 1>>))]_vars

\* C20: a run over an empty list returns at once: no semaphore, no task,
\* no entry in the saved or failed list, and no archive step.
C20_EmptyListNoAction ==
    d_n = 0 =>
        /\ d_pc \in {"start", "returned", "done"}
        /\ \A i \in Tasks : t_pc[i] = "none"
        /\ sem = 0 /\ rate_lock = 0
        /\ d_img_list = <<>> /\ d_failed = <<>> /\ d_doneq = <<>>
        /\ zip_calls = 0
        /\ \A w \in Callers : f_pc[w] = "idle" /\ i_pc[w] = "idle"
        /\ files = {}

\* the empty run has returned
C20_Witness ==
    /\ d_n = 0
    /\ d_pc = "returned"
    /\ zip_calls = 0

(***************************************************************************)
(* SpecMain: async_main, with ImageGrabber.validate and _url_resolver, up  *)
(* to the call of download()                                               *)
(***************************************************************************)
\* the page counts the gallery page's label announces
MaxLabelPages == 3

\* the values of category_mapping and of language_mapping, and "unknown"
Tags == {"volume", "short", "doujin", "AI", "3D", "photo", "Korean", "unknown"}
Subtags == {"CN", "JP", "CG", "COS", "EN", "Other", "unknown"}

\* for attempt in range(3)
ResolverMaxRetries == 3

\* wait_time = (2**attempt) * 2
ResolverWaitTime(attempt) == (2 ^ attempt) * 2

\* mutant: the failure of the last attempt ends the loop instead of raising
ResolverOutcomeFallsThrough(st, attempt) ==
    IF st = 200 THEN "break"
    ELSE IF attempt < ResolverMaxRetries - 1
         THEN (IF st \in Blocked THEN "backoff" ELSE "errsleep")
         ELSE "break"

\* what one attempt's outcome leads to in _url_resolver: a 200 leaves the
\* loop; 403/503/429 sleeps wait_time, or on the last attempt raises
\* ValueError inside the try; any other status raises ValueError inside the
\* try; the except clause sleeps 2 before the next attempt and on the last
\* attempt raises ValueError out of _url_resolver
ResolverOutcome(st, attempt) ==
    IF st = 200 THEN "break"
    ELSE IF attempt < ResolverMaxRetries - 1
         THEN (IF st \in Blocked THEN "backoff" ELSE "errsleep")
         ELSE "raise"

\* async_main builds the grabber with scraper=None and disable_delays=False
InitMain ==
    /\ URLIdle /\ CrawlIdle /\ FetchIdle /\ ListIdle /\ ImageIdle
    /\ ZipIdle /\ DownloadIdle
    /\ GrabberConstructed
    /\ own_scraper /\ ~disable_delays
    /\ page_num = 0
    /\ m_pc = "start"
    /\ url_set \in BOOLEAN
    /\ valid = FALSE
    /\ title_set = FALSE /\ img_link_set = FALSE /\ resolved = FALSE
    /\ tag = "unset" /\ subtag = "unset"
    /\ r_attempt = 0 /\ r_last = NoneResult /\ r_gets = 0 /\ r_sleeps = 0
    /\ r_slept = NoSleep

\* an async_main that calls download() whatever validate left in valid
AfterValidateAlwaysDownloads(v) == "download"

\* validate returned to async_main: download() is called when valid, the
\* diagnostic is printed and async_main returns otherwise
AfterValidate(v) == IF v THEN "download" ELSE "done"

\* await manga.validate(): an empty url is rejected at once, otherwise the
\* start page is requested
MainStart ==
    /\ m_pc = "start"
    /\ IF ~url_set
       THEN /\ valid' = FALSE
            /\ m_pc' = AfterValidate(FALSE)
       ELSE /\ m_pc' = "validate_get"
            /\ UNCHANGED valid
    /\ UNCHANGED <<url_set, title_set, img_link_set, resolved, tag, subtag,
                   r_attempt, r_last, r_gets, r_sleeps, r_slept>>
    /\ UNCHANGED <<grabberVars, notMainVars>>

\* the start page request ends with a status other than 200 or raises
ValidateGetFails ==
    /\ m_pc = "validate_get"
    /\ valid' = FALSE
    /\ m_pc' = AfterValidate(FALSE)
    /\ UNCHANGED <<url_set, title_set, img_link_set, resolved, tag, subtag,
                   r_attempt, r_last, r_gets, r_sleeps, r_slept>>
    /\ UNCHANGED <<grabberVars, notMainVars>>

\* a 200 whose markup lacks the title, the pic_box elements or their links,
\* the first link's href, or the last link's href
ValidatePageRejected ==
    /\ m_pc = "validate_get"
    /\ \E missing \in {"title", "pic_box", "href", "data_url_href"} :
          /\ title_set' = (missing # "title")
          /\ img_link_set' = (missing = "data_url_href")
    /\ valid' = FALSE
    /\ m_pc' = AfterValidate(FALSE)
    /\ UNCHANGED <<url_set, resolved, tag, subtag,
                   r_attempt, r_last, r_gets, r_sleeps, r_slept>>
    /\ UNCHANGED <<grabberVars, notMainVars>>

\* a 200 with title and links: self.data_url = await self._url_resolver(..)
\* issues the first request of the resolver
ValidatePageAccepted ==
    /\ m_pc = "validate_get"
    /\ title_set' = TRUE
    /\ img_link_set' = TRUE
    /\ m_pc' = "resolver_get"
    /\ r_attempt' = 0
    /\ r_gets' = 1
    /\ UNCHANGED <<url_set, valid, resolved, tag, subtag, r_last, r_sleeps, r_slept>>
    /\ UNCHANGED <<grabberVars, notMainVars>>

\* a resolver request that is retried: sleep wait_time after 403/503/429,
\* sleep 2 after another status or an exception
ResolverGetRetry ==
    /\ m_pc = "resolver_get"
    /\ \E st \in (Statuses \cup {Raised}) \ {200} :
          /\ ResolverOutcome(st, r_attempt) \in {"backoff", "errsleep"}
          /\ r_last' = st
          /\ r_slept' = IF ResolverOutcome(st, r_attempt) = "backoff"
                        THEN [kind |-> "backoff", t |-> ResolverWaitTime(r_attempt)]
                        ELSE [kind |-> "error", t |-> 2]
    /\ r_sleeps' = r_sleeps + 1
    /\ m_pc' = "resolver_sleep"
    /\ UNCHANGED <<url_set, valid, title_set, img_link_set, resolved, tag,
                   subtag, r_attempt, r_gets>>
    /\ UNCHANGED <<grabberVars, notMainVars>>

\* the sleep ends: the next attempt's request
ResolverSleepEnds ==
    /\ m_pc = "resolver_sleep"
    /\ r_attempt' = r_attempt + 1
    /\ r_gets' = r_gets + 1
    /\ r_slept' = NoSleep
    /\ m_pc' = "resolver_get"
    /\ UNCHANGED <<url_set, valid, title_set, img_link_set, resolved, tag,
                   subtag, r_last, r_sleeps>>
    /\ UNCHANGED <<grabberVars, notMainVars>>

\* the last attempt failed: ValueError leaves _url_resolver, validate and
\* async_main
ResolverGetGivesUp ==
    /\ m_pc = "resolver_get"
    /\ \E st \in (Statuses \cup {Raised}) \ {200} :
          /\ ResolverOutcome(st, r_attempt) = "raise"
          /\ r_last' = st
    /\ m_pc' = "raised"
    /\ UNCHANGED <<url_set, valid, title_set, img_link_set, resolved, tag,
                   subtag, r_attempt, r_gets, r_sleeps, r_slept>>
    /\ UNCHANGED <<grabberVars, notMainVars>>

\* the loop was left with a response (its outcome st): the failure counter
\* is reset with a 200
ResolverLeavesLoop(st) ==
    /\ m_pc = "resolver_get"
    /\ ResolverOutcome(st, r_attempt) = "break"
    /\ r_last' = st
    /\ consecutive_failures' = IF st = 200 THEN 0 ELSE consecutive_failures
    /\ UNCHANGED <<disable_delays, current_delay, success_count, scraper,
                   own_scraper, closed>>
    /\ UNCHANGED <<url_set, title_set, img_link_set, r_attempt, r_gets,
                   r_sleeps, r_slept>>
    /\ UNCHANGED notMainVars

\* the response has no img#picarea or the tag no src: ValueError
ResolverBadMarkup ==
    /\ \E st \in Statuses \cup {Raised} : ResolverLeavesLoop(st)
    /\ m_pc' = "raised"
    /\ UNCHANGED <<valid, resolved, tag, subtag, page_num>>

\* data_url is assigned; the page has no page-count label
ValidateNoLabel ==
    /\ \E st \in Statuses \cup {Raised} : ResolverLeavesLoop(st)
    /\ resolved' = TRUE
    /\ valid' = FALSE
    /\ m_pc' = AfterValidate(FALSE)
    /\ UNCHANGED <<tag, subtag, page_num>>

\* the label holds no digits: pages[0] raises IndexError
ValidateLabelWithoutNumber ==
    /\ \E st \in Statuses \cup {Raised} : ResolverLeavesLoop(st)
    /\ resolved' = TRUE
    /\ m_pc' = "raised"
    /\ UNCHANGED <<valid, tag, subtag, page_num>>

\* page_num is assigned; the breadcrumb div is missing, or it has fewer
\* than two links (tag becomes "unknown")
ValidateNoCategory ==
    /\ \E st \in Statuses \cup {Raised} : ResolverLeavesLoop(st)
    /\ resolved' = TRUE
    /\ page_num' \in 0..MaxLabelPages
    /\ tag' \in {tag, "unknown"}
    /\ valid' = FALSE
    /\ m_pc' = AfterValidate(FALSE)
    /\ UNCHANGED subtag

\* tag and subtag are assigned from the mappings and valid becomes True;
\* async_main goes on to call download()
ValidateSucceeds ==
    /\ \E st \in Statuses \cup {Raised} : ResolverLeavesLoop(st)
    /\ resolved' = TRUE
    /\ page_num' \in 0..MaxLabelPages
    /\ tag' \in Tags
    /\ subtag' \in Subtags
    /\ valid' = TRUE
    /\ m_pc' = AfterValidate(TRUE)

NextMain ==
    \/ MainStart
    \/ ValidateGetFails
    \/ ValidatePageRejected
    \/ ValidatePageAccepted
    \/ ResolverGetRetry
    \/ ResolverSleepEnds
    \/ ResolverGetGivesUp
    \/ ResolverBadMarkup
    \/ ValidateNoLabel
    \/ ValidateLabelWithoutNumber
    \/ ValidateNoCategory
    \/ ValidateSucceeds

SpecMain == InitMain /\ [][NextMain]_vars

(***************************************************************************)
(* Claims on validation                                                    *)
(***************************************************************************)
\* C13: when the template-resolution fetch has failed on all three attempts
\* the run is aborted: an exception has left async_main, valid is not true,
\* download() is not called, and no pipeline pass, image fetch or archive
\* step exists.
C13_ResolutionFailureAborts ==
    (m_pc \notin {"resolver_get", "resolver_sleep"}
        /\ r_gets = ResolverMaxRetries /\ r_last # 200) =>
        /\ m_pc = "raised"
        /\ ~valid
        /\ d_pc = "none" /\ zip_calls = 0
        /\ \A w \in Callers : f_pc[w] = "idle" /\ i_pc[w] = "idle"

\* three blocked responses in a row, two backoff sleeps between them
C13_Witness ==
    /\ m_pc = "raised"
    /\ r_gets = ResolverMaxRetries
    /\ r_last \in Blocked
    /\ r_sleeps = 2

(***************************************************************************)
(* SpecImage: one call of ImageGrabber._download_single_image              *)
(***************************************************************************)
\* the call runs as the first of the fetcher's callers (the fetcher under
\* concurrent callers is SpecFetch)
ImageTasks == {1}

\* the index arguments
ImageIndexes == {0, 1}

Https == <<"h", "t", "t", "p", "s", ":">>
Jpg == <<"j", "p", "g">>
Png == <<"p", "n", "g">>

\* the url arguments: a .jpg, a .png, another extension, and a .png whose
\* host holds the text "png" too
ImageSampleURLs ==
    { <<"/", "/", "h", "/", "1", ".">> \o Jpg,
      <<"/", "/", "h", "/", "1", ".">> \o Png,
      <<"/", "/", "h", "/", "1", ".", "g", "i", "f">>,
      <<"/", "/">> \o Png \o <<"/", "1", ".">> \o Png }

\* s.split(".")[-1]
AfterLastDot(s) ==
    LET dots == {p \in 1..Len(s) : s[p] = "."}
    IN  IF dots = {} THEN s
        ELSE SubSeq(s, (CHOOSE p \in dots : \A q \in dots : q <= p) + 1, Len(s))

\* s.replace(old, new): every occurrence, left to right
RECURSIVE ReplaceFrom(_, _, _, _)
ReplaceFrom(s, old, new, p) ==
    IF p > Len(s) THEN <<>>
    ELSE IF StartsAt(s, p, old) THEN new \o ReplaceFrom(s, old, new, p + Len(old))
    ELSE <<s[p]>> \o ReplaceFrom(s, old, new, p + 1)

Replace(s, old, new) == ReplaceFrom(s, old, new, 1)

\* file_url = "https:" + url
FileUrl(url) == Https \o url

\* effective_extension of the alternate attempt
AltExtension(file_url) == IF AfterLastDot(file_url) = Jpg THEN Png ELSE Jpg

\* alt_url
AltUrl(file_url) ==
    IF AfterLastDot(file_url) = Jpg
    THEN Replace(file_url, Jpg, Png) ELSE Replace(file_url, Png, Jpg)

\* if r is None or r.status_code == 404
TriesAlternate(ret, last) == ret = NoneResult \/ last = 404

\* img_name = f"{index}.{effective_extension}"
ImgName(index, ext) == Str(index) \o <<".">> \o ext

\* (False, None, (index, effective_url))
FailedResult(index, url) ==
    [success |-> FALSE, img_name |-> <<>>, error_info |-> <<index, url>>]

InitImage ==
    /\ URLIdle /\ CrawlIdle /\ FetchIdle /\ ListIdle /\ MainIdle /\ ImageIdle
    /\ ZipIdle /\ DownloadIdle
    /\ GrabberConstructed
    /\ ~disable_delays
    /\ page_num = 0

\* r = await self._download_image_with_retry(u): attempt 0 issues get_async
ImageFetchStart(k, u) ==
    /\ i_calls' = [i_calls EXCEPT ![k] = Append(@, u)]
    /\ f_pc' = [f_pc EXCEPT ![k] = "get"]
    /\ f_attempt' = [f_attempt EXCEPT ![k] = 0]
    /\ f_session' = [f_session EXCEPT ![k] = scraper]
    /\ f_current_failures' = [f_current_failures EXCEPT ![k] = 0]
    /\ f_ret' = [f_ret EXCEPT ![k] = NoneResult]
    /\ f_last' = [f_last EXCEPT ![k] = NoneResult]
    /\ f_gets' = [f_gets EXCEPT ![k] = 1]
    /\ f_sleeps' = [f_sleeps EXCEPT ![k] = 0]
    /\ f_slept' = [f_slept EXCEPT ![k] = NoSleep]

\* a call: the random delay when index > 0 and delays are on, else the
\* first fetch at once
ImageCall(k) ==
    /\ i_pc[k] = "idle"
    /\ \E index \in ImageIndexes, url \in ImageSampleURLs :
          /\ i_index' = [i_index EXCEPT ![k] = index]
          /\ i_url' = [i_url EXCEPT ![k] = url]
          /\ IF index > 0 /\ ~disable_delays
             THEN /\ i_pc' = [i_pc EXCEPT ![k] = "delay"]
                  /\ UNCHANGED <<i_calls, fetchVars>>
             ELSE /\ i_pc' = [i_pc EXCEPT ![k] = "primary"]
                  /\ ImageFetchStart(k, FileUrl(url))
    /\ UNCHANGED <<i_effective_url, i_effective_extension,
                   i_saves, i_result, files>>
    /\ UNCHANGED <<grabberVars, notImageVars>>

\* the random delay ends: the first fetch
ImageDelayEnds(k) ==
    /\ i_pc[k] = "delay"
    /\ i_pc' = [i_pc EXCEPT ![k] = "primary"]
    /\ ImageFetchStart(k, FileUrl(i_url[k]))
    /\ UNCHANGED <<i_index, i_url, i_effective_url,
                   i_effective_extension, i_saves, i_result, files>>
    /\ UNCHANGED <<grabberVars, notImageVars>>

\* the first fetch returned r (f_ret and f_last of the call are what r is
\* from here on): the alternate URL is fetched, or the payload goes to the
\* executor
ImagePrimaryReturns(k) ==
    /\ i_pc[k] = "primary"
    /\ f_pc[k] = "returned"
    /\ i_effective_url' = [i_effective_url EXCEPT ![k] = FileUrl(i_url[k])]
    /\ IF TriesAlternate(f_ret[k], f_last[k])
       THEN /\ i_effective_extension' =
                  [i_effective_extension EXCEPT ![k] = AltExtension(FileUrl(i_url[k]))]
            /\ i_pc' = [i_pc EXCEPT ![k] = "fallback"]
            /\ ImageFetchStart(k, AltUrl(FileUrl(i_url[k])))
            /\ UNCHANGED <<i_saves, i_result>>
       ELSE /\ i_effective_extension' =
                  [i_effective_extension EXCEPT ![k] = AfterLastDot(FileUrl(i_url[k]))]
            /\ UNCHANGED fetchVars
            /\ IF f_ret[k] = 200
               THEN /\ i_pc' = [i_pc EXCEPT ![k] = "saving"]
                    /\ i_saves' = [i_saves EXCEPT ![k] = @ + 1]
                    /\ UNCHANGED i_result
               ELSE /\ i_pc' = [i_pc EXCEPT ![k] = "returned"]
                    /\ i_result' = [i_result EXCEPT ![k] =
                                       FailedResult(i_index[k], FileUrl(i_url[k]))]
                    /\ UNCHANGED i_saves
            /\ UNCHANGED i_calls
    /\ UNCHANGED <<i_index, i_url, files>>
    /\ UNCHANGED <<grabberVars, notImageVars>>

\* the fetch of alt_url returned r: a 200 makes alt_url the effective URL and
\* the payload goes to the executor, else the failure tuple is returned
ImageFallbackReturns(k) ==
    /\ i_pc[k] = "fallback"
    /\ f_pc[k] = "returned"
    /\ UNCHANGED fetchVars
    /\ IF f_ret[k] = 200
       THEN /\ i_effective_url' = [i_effective_url EXCEPT ![k] = i_calls[k][2]]
            /\ i_pc' = [i_pc EXCEPT ![k] = "saving"]
            /\ i_saves' = [i_saves EXCEPT ![k] = @ + 1]
            /\ UNCHANGED i_result
       ELSE /\ i_pc' = [i_pc EXCEPT ![k] = "returned"]
            /\ i_result' = [i_result EXCEPT ![k] =
                               FailedResult(i_index[k], i_effective_url[k])]
            /\ UNCHANGED <<i_effective_url, i_saves>>
    /\ UNCHANGED <<i_index, i_url, i_calls, i_effective_extension, files>>
    /\ UNCHANGED <<grabberVars, notImageVars>>

\* Image.open(..).save(..) wrote the file
ImageSaved(k) ==
    /\ i_pc[k] = "saving"
    /\ files' = files \cup {ImgName(i_index[k], i_effective_extension[k])}
    /\ i_result' = [i_result EXCEPT ![k] =
           [success |-> TRUE,
            img_name |-> ImgName(i_index[k], i_effective_extension[k]),
            error_info |-> <<>>]]
    /\ i_pc' = [i_pc EXCEPT ![k] = "returned"]
    /\ UNCHANGED <<i_index, i_url, i_calls, i_effective_url,
                   i_effective_extension, i_saves>>
    /\ UNCHANGED <<grabberVars, fetchVars, notImageVars>>

\* Image.open(..).save(..) raised OSError: the failure tuple is returned
ImageSaveOSError(k) ==
    /\ i_pc[k] = "saving"
    /\ i_result' = [i_result EXCEPT ![k] = FailedResult(i_index[k], i_effective_url[k])]
    /\ i_pc' = [i_pc EXCEPT ![k] = "returned"]
    /\ UNCHANGED <<i_index, i_url, i_calls, i_effective_url,
                   i_effective_extension, i_saves, files>>
    /\ UNCHANGED <<grabberVars, fetchVars, notImageVars>>

\* Image.open(..).save(..) raised an exception that is no OSError: it
\* leaves _download_single_image
ImageSaveOtherError(k) ==
    /\ i_pc[k] = "saving"
    /\ i_pc' = [i_pc EXCEPT ![k] = "raised"]
    /\ UNCHANGED <<i_index, i_url, i_calls, i_effective_url,
                   i_effective_extension, i_saves, i_result, files>>
    /\ UNCHANGED <<grabberVars, fetchVars, notImageVars>>

\* a step of the fetcher running for task k
ImageFetchStep(k) ==
    /\ i_pc[k] \in {"primary", "fallback"}
    /\ \/ FetchGet200(k)
       \/ FetchGet404(k)
       \/ FetchGetBlocked(k)
       \/ FetchGetOther(k)
       \/ FetchGetException(k)
       \/ FetchBackoffEnds(k)
       \/ FetchErrorSleepEnds(k)

NextImage ==
    \E k \in ImageTasks :
        \/ ImageCall(k)
        \/ ImageDelayEnds(k)
        \/ ImageFetchStep(k)
        \/ ImagePrimaryReturns(k)
        \/ ImageFallbackReturns(k)
        \/ ImageSaved(k)
        \/ ImageSaveOSError(k)
        \/ ImageSaveOtherError(k)

SpecImage == InitImage /\ [][NextImage]_vars

(***************************************************************************)
(* Claims on the single-image download                                     *)
(***************************************************************************)
\* C14: a further fetch after the first one is started at most once per
\* task, and only when the first fetch ended with HTTP 404; a first fetch
\* that gave up for another reason is followed by no further request.
C14_FallbackOnlyAfterNotFound ==
    [][\A k \in ImageTasks :
          (i_calls'[k] # i_calls[k] /\ i_calls[k] # <<>>) =>
              /\ Len(i_calls[k]) = 1
              /\ f_last[k] = 404]_vars

\* the extension of a URL: the text after its last dot
UrlExtension(u) ==
    LET dot == CHOOSE p \in 1..Len(u) :
                   u[p] = "." /\ \A q \in (p + 1)..Len(u) : u[q] # "."
    IN  SubSeq(u, dot + 1, Len(u))

\* C15: the payload goes to decoding and writing exactly when the task's
\* final response is a 200; a file exists exactly when the task returned
\* success, and it is named "{index}.{ext}" with ext the extension of the URL
\* whose fetch returned the 200.
C15_SavedNameFollowsFetchedUrl ==
    \A k \in ImageTasks :
        /\ i_saves[k] <= 1
        /\ (i_pc[k] \in {"saving", "returned", "raised"} =>
               (i_saves[k] = 1 <=> f_ret[k] = 200))
        /\ (i_result[k].success =>
               /\ i_saves[k] = 1
               /\ i_result[k].img_name =
                     Str(i_index[k]) \o <<".">>
                        \o UrlExtension(i_calls[k][Len(i_calls[k])])
               /\ files = {i_result[k].img_name})
        /\ (~i_result[k].success => files = {})

\* C16: a payload fetched with HTTP 200 that cannot be decoded or written
\* makes the task return its failure tuple (index and effective URL, no
\* filename) and leaves no file; no exception leaves the task.
C16_DecodeFailureIsRecorded ==
    \A k \in ImageTasks :
        /\ i_pc[k] # "raised"
        /\ (i_pc[k] = "returned" /\ i_saves[k] = 1 /\ ~i_result[k].success) =>
               /\ i_result[k] = FailedResult(i_index[k], i_effective_url[k])
               /\ files = {}

(***************************************************************************)
(* SpecZip: _create_zip, called directly with a sorted img_list            *)
(***************************************************************************)
MaxZipEntries == 3

Sep == "/"
NewFolder == <<"d", "/", "t">>
Title == <<"t">>
Cbz == <<".", "c", "b", "z">>

\* os.path.join(a, b) for a relative b
PathJoin(a, b) == a \o <<Sep>> \o b

ZipPath == PathJoin(NewFolder, Title \o Cbz)

RECURSIVE StripLeadingSep(_)
StripLeadingSep(s) ==
    IF s # <<>> /\ Head(s) = Sep THEN StripLeadingSep(Tail(s)) ELSE s

\* the entry name zipf.write would store without its arcname argument
ArcNameOfPath(img) == StripLeadingSep(PathJoin(NewFolder, img))

\* the entry name zipf.write(img_path, arcname=img) stores
ArcName(img) == StripLeadingSep(img)

\* the position after zipf.close() without the zip_only test
AfterCloseAlwaysRemoves(zo) == "removing"

\* the position after zipf.close()
AfterClose(zo) == IF zo THEN "removing" ELSE "returned"

ZipIndexes == 0..(MaxZipEntries - 1)

\* the img_list values _download_list can pass: one name per saved index,
\* ascending by index
RECURSIVE NamesOf(_, _)
NamesOf(ext, i) ==
    IF i > MaxZipEntries - 1 THEN <<>>
    ELSE (IF ext[i] = <<>> THEN <<>> ELSE <<ImgName(i, ext[i])>>)
         \o NamesOf(ext, i + 1)

ZipSampleLists ==
    {NamesOf(ext, 0) : ext \in [ZipIndexes -> {<<>>, Jpg, Png}]}

Range(s) == {s[j] : j \in 1..Len(s)}

InitZip ==
    /\ z_pc = "called"
    /\ z_img_list \in ZipSampleLists
    /\ zip_only \in BOOLEAN
    /\ z_pos = 0 /\ z_archives = <<>> /\ z_open = FALSE /\ z_entries = <<>>
    /\ z_removes = <<>>
    /\ z_files = {PathJoin(NewFolder, n) : n \in Range(z_img_list)}
    /\ URLIdle /\ CrawlIdle /\ FetchIdle /\ ListIdle /\ MainIdle /\ ImageIdle
    /\ DownloadIdle
    /\ GrabberConstructed
    /\ page_num = 0

\* zipfile.ZipFile(zip_path, "w", ...)
ZipOpen ==
    /\ z_pc = "called"
    /\ z_archives' = Append(z_archives, ZipPath)
    /\ z_open' = TRUE /\ z_entries' = <<>>
    /\ z_pos' = 1 /\ z_pc' = "writing"
    /\ UNCHANGED <<z_img_list, zip_only, z_removes, z_files>>
    /\ UNCHANGED notZipVars

\* zipf.write(img_path, arcname=img, ...)
ZipWrite ==
    /\ z_pc = "writing" /\ z_pos <= Len(z_img_list)
    /\ IF PathJoin(NewFolder, z_img_list[z_pos]) \in z_files
       THEN /\ z_entries' = Append(z_entries, ArcName(z_img_list[z_pos]))
            /\ z_pos' = z_pos + 1
            /\ z_pc' = "writing"
       ELSE /\ z_pc' = "raised"
            /\ UNCHANGED <<z_entries, z_pos>>
    /\ UNCHANGED <<z_img_list, zip_only, z_archives, z_open, z_removes,
                   z_files>>
    /\ UNCHANGED notZipVars

\* zipf.close(), then the zip_only test
ZipClose ==
    /\ z_pc = "writing" /\ z_pos > Len(z_img_list)
    /\ z_open' = FALSE
    /\ z_pos' = 1
    /\ z_pc' = AfterClose(zip_only)
    /\ UNCHANGED <<z_img_list, zip_only, z_archives, z_entries, z_removes,
                   z_files>>
    /\ UNCHANGED notZipVars

\* os.remove(os.path.join(new_folder, img)), an OSError is caught
ZipRemove ==
    /\ z_pc = "removing" /\ z_pos <= Len(z_img_list)
    /\ \E ok \in BOOLEAN :
        LET path == PathJoin(NewFolder, z_img_list[z_pos]) IN
        /\ ok => path \in z_files
        /\ z_removes' = Append(z_removes, [path |-> path, ok |-> ok])
        /\ z_files' = IF ok THEN z_files \ {path} ELSE z_files
    /\ z_pos' = z_pos + 1
    /\ UNCHANGED <<z_pc, z_img_list, zip_only, z_archives, z_open, z_entries>>
    /\ UNCHANGED notZipVars

ZipReturn ==
    /\ z_pc = "removing" /\ z_pos > Len(z_img_list)
    /\ z_pc' = "returned"
    /\ UNCHANGED <<z_img_list, zip_only, z_pos, z_archives, z_open,
                   z_entries, z_removes, z_files>>
    /\ UNCHANGED notZipVars

NextZip == ZipOpen \/ ZipWrite \/ ZipClose \/ ZipRemove \/ ZipReturn

SpecZip == InitZip /\ [][NextZip]_vars

HasSep(s) == \E j \in 1..Len(s) : s[j] = Sep

\* C21: once the archive is closed, one archive was created, at
\* new_folder/{title}.cbz, and its entries are the names of img_list in the
\* order of img_list, none of them containing a directory separator; while
\* it is open its entries are the names written so far.
C21_ArchiveEntries ==
    z_pc \in {"writing", "removing", "returned"} =>
        /\ z_archives = <<ZipPath>>
        /\ z_entries = SubSeq(z_img_list, 1, Len(z_entries))
        /\ \A j \in 1..Len(z_entries) : ~HasSep(z_entries[j])
        /\ ~z_open => z_entries = z_img_list

C21_Witness ==
    z_pc = "returned" /\ Len(z_img_list) >= 2 /\ z_entries = z_img_list

ArchivedPaths == {PathJoin(NewFolder, n) : n \in Range(z_img_list)}

\* C22 as stated: nothing is removed while the archive is open; with
\* zip_only, when _create_zip returns, there was one os.remove per entry and
\* none of the archived files is left; without zip_only there is no removal
\* and every file is left.
C22_Original ==
    /\ z_open => z_removes = <<>>
    /\ (zip_only /\ z_pc = "returned") =>
           /\ Len(z_removes) = Len(z_img_list)
           /\ z_files \cap ArchivedPaths = {}
    /\ (~zip_only /\ z_pc # "none") =>
           z_removes = <<>> /\ z_files = ArchivedPaths

\* C22, amended: nothing is removed while the archive is open; with
\* zip_only, when _create_zip returns, os.remove was called once per entry,
\* in the order of img_list, and the archived files left in the directory
\* are exactly those whose os.remove raised OSError; without zip_only there
\* is no removal and every file is left.
C22_RemovalAfterClose ==
    /\ z_open => z_removes = <<>>
    /\ (zip_only /\ z_pc = "returned") =>
           /\ Len(z_removes) = Len(z_img_list)
           /\ \A j \in 1..Len(z_removes) :
                  /\ z_removes[j].path = PathJoin(NewFolder, z_img_list[j])
                  /\ z_removes[j].ok <=> z_removes[j].path \notin z_files
    /\ (~zip_only /\ z_pc # "none") =>
           z_removes = <<>> /\ z_files = ArchivedPaths

C22_Witness ==
    /\ zip_only /\ z_pc = "returned" /\ Len(z_removes) >= 2
    /\ \E j \in 1..Len(z_removes) : z_removes[j].ok
    /\ \E j \in 1..Len(z_removes) : ~z_removes[j].ok

(***************************************************************************)
(* URLProcessor: construction failure                                      *)
(***************************************************************************)
NoDigitInLastSegment(url) ==
    \A j \in 1..Len(LastSegment(url)) : ~IsDigit(LastSegment(url)[j])

\* C23: for a URL whose last path segment has no digit, the constructor
\* ends by raising: no template is stored, the object never becomes ready,
\* no generator is obtained from it and no URL is generated.
C23_NoDigitRunNoTemplate ==
    (u_pc # "none" /\ NoDigitInLastSegment(data_url)) =>
        /\ u_pc \in {"new", "KeyError"}
        /\ template = <<>>
        /\ gen_kind = "none" /\ generated = <<>>

C23_Witness ==
    /\ u_pc = "KeyError" /\ NoDigitInLastSegment(data_url)
    /\ Len(LastSegment(data_url)) > Len(Ext) + 1

(***************************************************************************)
(* async_main: the branch on manga.valid                                   *)
(***************************************************************************)
InsideValidate ==
    m_pc \in {"start", "validate_get", "resolver_get", "resolver_sleep"}

C26_CrawlFiniteNeverAborts ==
    /\ c_pc # "raised"
    /\ Len(c_yielded) <= page_num
    /\ c_gets <= CrawlMaxRetries
    /\ c_pc = "exhausted" => c_page = page_num
    /\ c_pc \in {"get", "backoff", "errsleep", "yield"} => c_page < page_num

(***************************************************************************)
(* The image fetcher, the rate gate and the session                        *)
(***************************************************************************)
\* C27: every get_async of a download worker comes after a pass of its own
\* through the rate gate.  download_with_semaphore passes the gate once,
\* before it calls _download_single_image, so within the call only the
\* first request has a pass of its own: no request is issued after the
\* first (no retry after a sleep, no fetch of the alternate URL).
C27_EveryRequestPassesGate ==
    [][\A k \in ImageTasks :
          (f_pc[k] # "get" /\ f_pc'[k] = "get") => i_calls[k] = <<>>]_vars

\* C28: in _download_image_with_retry a 200 is reported as a success (the
\* success counter goes up by one, or back to 0 with the delay decayed when
\* it reaches 5 above min_delay) and a 403/503/429 as a failure (the delay
\* becomes min(max_delay, 1.5 * delay) and the success counter 0).
C28_FetchReportsOutcome ==
    [][\A w \in Callers :
          /\ FetchGet200(w) =>
                IF success_count + 1 >= 5 /\ Below(Two, current_delay)
                THEN success_count' = 0 /\ Below(current_delay', current_delay)
                ELSE success_count' = success_count + 1
          /\ FetchGetBlocked(w) =>
                /\ success_count' = 0
                /\ \/ IsThreeHalvesOf(current_delay', current_delay)
                   \/ /\ current_delay' = Fifteen
                      /\ Below(Fifteen, RMul(current_delay, 3, 2))]_vars

\* C29 (page crawl): when the sleep after a blocked response on a non-final
\* attempt ends with more than 2 consecutive failures counted, the session
\* is replaced by a new one and the failure counter reset to 0 before the
\* next request.
C29_RefreshAboveThreshold ==
    [][(c_pc = "backoff" /\ c_pc' = "get" /\ consecutive_failures > 2) =>
          /\ scraper' # scraper
          /\ consecutive_failures' = 0]_vars

\* C30: no request is in flight on a session that has been replaced and
\* closed.
C30_NoRequestOnClosedSession ==
    \A w \in Callers : f_pc[w] = "get" => f_session[w] \notin closed

(***************************************************************************)
(* SpecDownload: download(), with the page crawl and the passes of         *)
(* _download_list it runs                                                  *)
(***************************************************************************)
MaxDownloadPages == 2

\* self.data_url as validate left it: a file name with a digit run, and one
\* without
DownloadSampleURLs ==
    { <<"/", "/", "h", "/", "0", "1", ".", "j", "p", "g">>,
      <<"/", "/", "h", "/", "a", ".", "j", "p", "g">> }

\* the passes of a mode, in the order of their calls
PassesOf(m) ==
    IF m = "crawl" THEN <<"crawl">>
    ELSE <<"normal", "special", "special-", "special_">>

\* whether list(url_iterator) raises, and len(urls), for a pass over
\* URLProcessor(self.data_url, self.page_num)
PassListRaises ==
    ~FormatOK(GenerateTemplate(data_url), VarNames(NumVars(data_url)), 1)

PassLength(kind) ==
    IF kind = "normal" THEN Cardinality(NormalRange(page_num))
    ELSE Len(SpCList)

\* a call of _download_list(url_iterator): its locals
PassStart(kind) ==
    /\ p_passes' = Append(p_passes, kind)
    /\ d_img_list' = <<>> /\ d_failed' = <<>> /\ d_doneq' = <<>>
    /\ sem' = 0 /\ rate_lock' = 0
    /\ last_request_time' = [type |-> "float", v |-> 0]
    /\ t_pc' = [i \in Tasks |-> "none"]
    /\ t_wake' = [i \in Tasks |-> 0]
    /\ t_result' = [i \in Tasks |-> NoResult]
    /\ UNCHANGED <<now, zip_calls, zip_arg>>

\* a pass over a list of the URLProcessor: urls = list(url_iterator)
ListPassStart(kind) ==
    /\ PassStart(kind)
    /\ IF PassListRaises
       THEN d_pc' = "raised" /\ UNCHANGED d_n
       ELSE d_pc' = "start" /\ d_n' = PassLength(kind)

\* a close that does not ask who owns the session
CloseScraperAlways ==
    /\ closed' = closed \cup {scraper}
    /\ UNCHANGED <<page_num, disable_delays, consecutive_failures,
                   current_delay, success_count, scraper, own_scraper>>

\* the finally clause of download(): await self._close_scraper()
CloseScraper ==
    /\ closed' = closed \cup (IF own_scraper THEN {scraper} ELSE {})
    /\ UNCHANGED <<page_num, disable_delays, consecutive_failures,
                   current_delay, success_count, scraper, own_scraper>>

InitDownload ==
    /\ data_url \in DownloadSampleURLs
    /\ pnum = 0 /\ template = <<>> /\ num_vars = 0
    /\ n_digits = <<>> /\ u_pc = "none" /\ gen_kind = "none"
    /\ gen_sep = <<>> /\ gen_i = 0 /\ generated = <<>>
    /\ CrawlIdle /\ FetchIdle /\ MainIdle /\ ImageIdle /\ ZipIdle
    /\ GrabberConstructed
    /\ ~disable_delays
    /\ page_num \in 0..MaxDownloadPages
    /\ mode \in {"crawl", "normal"}
    /\ p_pc = "called" /\ p_passes = <<>>
    /\ d_pc = "none" /\ d_n = 0
    /\ d_img_list = <<>> /\ d_failed = <<>> /\ d_doneq = <<>>
    /\ sem = 0 /\ rate_lock = 0
    /\ last_request_time = [type |-> "float", v |-> 0]
    /\ now = 1
    /\ t_pc = [i \in Tasks |-> "none"]
    /\ t_wake = [i \in Tasks |-> 0]
    /\ t_result = [i \in Tasks |-> NoResult]
    /\ zip_calls = 0 /\ zip_arg = <<>>

\* download() up to its first await: in crawl mode _download_list starts to
\* iterate _page_crawl(self.img_link); otherwise the URLProcessor is built
\* (its KeyError goes through the finally clause) and the normal list is
\* passed to _download_list
DownloadCall ==
    /\ p_pc = "called"
    /\ IF mode = "crawl"
       THEN /\ p_pc' = "collect"
            /\ PassStart("crawl")
            /\ c_pc' = "start" /\ c_url' = 1
            /\ UNCHANGED <<d_pc, d_n, c_page, c_attempt, c_result, c_yielded,
                           c_gets, c_slept>>
            /\ UNCHANGED grabberVars
       ELSE /\ IF GenerateTemplateRaises(data_url)
               THEN /\ p_pc' = "raised"
                    /\ CloseScraper
                    /\ UNCHANGED <<listVars, p_passes>>
               ELSE /\ p_pc' = "pass"
                    /\ ListPassStart("normal")
                    /\ UNCHANGED grabberVars
            /\ UNCHANGED crawlVars
    /\ UNCHANGED <<mode, urlVars, fetchVars, mainVars, imageVars, zipVars>>

\* a pipeline that starts on the URLs received so far
DownloadCrawlCollectedEager ==
    /\ p_pc = "collect" /\ c_yielded # <<>>
    /\ p_pc' = "pass"
    /\ d_pc' = "start" /\ d_n' = Len(c_yielded)
    /\ UNCHANGED <<d_img_list, d_failed, d_doneq, sem, rate_lock,
                   last_request_time, now, t_pc, t_wake, t_result,
                   zip_calls, zip_arg>>
    /\ UNCHANGED <<mode, p_passes, grabberVars, urlVars, crawlVars,
                   fetchVars, mainVars, imageVars, zipVars>>

\* the async for over the page crawl ended: urls holds what was yielded
DownloadCrawlCollected ==
    /\ p_pc = "collect" /\ c_pc = "exhausted"
    /\ p_pc' = "pass"
    /\ d_pc' = "start" /\ d_n' = Len(c_yielded)
    /\ UNCHANGED <<d_img_list, d_failed, d_doneq, sem, rate_lock,
                   last_request_time, now, t_pc, t_wake, t_result,
                   zip_calls, zip_arg>>
    /\ UNCHANGED <<mode, p_passes, grabberVars, urlVars, crawlVars,
                   fetchVars, mainVars, imageVars, zipVars>>

\* the exception of the page crawl leaves _download_list and download()
DownloadCrawlRaised ==
    /\ p_pc = "collect" /\ c_pc = "raised"
    /\ p_pc' = "raised"
    /\ d_pc' = "raised"
    /\ CloseScraper
    /\ UNCHANGED <<d_n, d_img_list, d_failed, d_doneq, sem, rate_lock,
                   last_request_time, now, t_pc, t_wake, t_result,
                   zip_calls, zip_arg>>
    /\ UNCHANGED <<mode, p_passes, urlVars, crawlVars, fetchVars, mainVars,
                   imageVars, zipVars>>

\* _download_list returned: the next pass of the mode is called, or after
\* the last one the finally clause runs and download() returns
DownloadPassReturns ==
    /\ p_pc = "pass" /\ d_pc = "returned"
    /\ IF Len(p_passes) < Len(PassesOf(mode))
       THEN /\ ListPassStart(PassesOf(mode)[Len(p_passes) + 1])
            /\ UNCHANGED <<p_pc, grabberVars>>
       ELSE /\ p_pc' = "returned"
            /\ CloseScraper
            /\ UNCHANGED <<listVars, p_passes>>
    /\ UNCHANGED <<mode, urlVars, crawlVars, fetchVars, mainVars, imageVars,
                   zipVars>>

\* the exception of _download_list passes through the finally clause and
\* leaves download(); asyncio.run then cancels the tasks that have not
\* finished
DownloadPassRaises ==
    /\ p_pc = "pass" /\ d_pc = "raised"
    /\ p_pc' = "raised"
    /\ CloseScraper
    /\ t_pc' = [i \in Tasks |->
                  IF t_pc[i] \in {"pending", "gate1", "gate1_sleep", "gate2"}
                  THEN "cancelled" ELSE t_pc[i]]
    /\ sem' = sem + Cardinality({i \in Tasks :
                                   t_pc[i] \in {"gate1", "gate1_sleep", "gate2"}})
    /\ rate_lock' = 0
    /\ UNCHANGED <<d_pc, d_n, d_img_list, d_failed, d_doneq,
                   last_request_time, now, t_wake, t_result, zip_calls, zip_arg>>
    /\ UNCHANGED <<mode, p_passes, urlVars, crawlVars, fetchVars, mainVars,
                   imageVars, zipVars>>

NextDownload ==
    \/ DownloadCall
    \/ (p_pc = "collect" /\ NextCrawl)
    \/ DownloadCrawlCollected
    \/ DownloadCrawlRaised
    \/ (p_pc = "pass" /\ DownloadListStart)
    \/ \E i \in Tasks : TaskAcquireSemaphore(i)
    \/ \E i \in Tasks : TaskGate1Enter(i)
    \/ \E i \in Tasks : TaskGate1Wake(i)
    \/ \E i \in Tasks : TaskGate2Enter(i)
    \/ Tick
    \/ (p_pc = "pass" /\ DownloadListAwaitNext)
    \/ DownloadPassReturns
    \/ DownloadPassRaises

SpecDownload == InitDownload /\ [][NextDownload]_vars

\* C25: the passes download() starts are the passes of its mode in their
\* order (normal, special with "", with "-", with "_"; or the one crawl
\* pass), and when download() has ended with the template built all the
\* passes of the mode have been run.
C25_PassesOfMode ==
    /\ p_pc # "none" =>
           p_passes = SubSeq(PassesOf(mode), 1, Len(p_passes))
    /\ (p_pc \in {"returned", "raised"}
          /\ (mode = "normal" => ~NoDigitInLastSegment(data_url))) =>
           p_passes = PassesOf(mode)

(***************************************************************************)
(* The retry loops                                                         *)
(***************************************************************************)
\* C31 (image fetch): an answer with a status other than 200, 404, 403, 503
\* and 429, and a raised get_async, is followed by the flat 5 s sleep and
\* another attempt when the attempt is not the last, and ends the call only
\* when it is the last.
C31_OtherStatusRetries ==
    [][\A w \in Callers :
          (FetchGetOther(w) \/ FetchGetException(w)) =>
              IF f_attempt[w] < 2
              THEN /\ f_pc'[w] = "errsleep"
                   /\ f_slept'[w] = [kind |-> "error", t |-> 5]
              ELSE f_pc'[w] = "returned"]_vars

\* SpecRetry: the three retry loops, each run on its own: a page crawl, the
\* callers of _download_image_with_retry, or validate with _url_resolver
InitRetry == InitCrawl \/ InitFetch \/ InitMain

NextRetry ==
    \/ (c_pc # "none" /\ NextCrawl)
    \/ (c_pc = "none" /\ m_pc = "none" /\ NextFetch)
    \/ (m_pc # "none" /\ NextMain)

SpecRetry == InitRetry /\ [][NextRetry]_vars

\* C32: a call of _download_image_with_retry, a page iteration of
\* _page_crawl and a call of _url_resolver have each made at most 3
\* get_async calls, and once the third has been answered the loop is over:
\* no sleep and no further request follows.
C32_AtMostThreeRequests ==
    /\ \A w \in Callers :
          /\ f_gets[w] <= 3
          /\ (f_gets[w] = 3 /\ f_pc[w] # "get") => f_pc[w] = "returned"
    /\ c_gets <= 3
    /\ (c_gets = 3 /\ c_pc # "get") => c_pc \notin {"backoff", "errsleep"}
    /\ r_gets <= 3
    /\ (r_gets = 3 /\ m_pc # "resolver_get") => m_pc # "resolver_sleep"

\* three blocked answers, two backoff sleeps, then None
C32_Witness ==
    /\ f_pc[1] = "returned" /\ f_gets[1] = 3 /\ f_sleeps[1] = 2
    /\ f_last[1] \in Blocked /\ f_ret[1] = NoneResult

RECURSIVE Pow3(_)
Pow3(k) == IF k = 0 THEN 1 ELSE 3 * Pow3(k - 1)

Least(a, b) == IF a <= b THEN a ELSE b

TaskExists == \E i \in Tasks : t_pc[i] # "none"

\* C34: while the URL source is being consumed no task exists and no image
\* request has been made; when a task of a crawl-mode pass exists the page
\* crawl is exhausted (its last page request has been answered) and the
\* pass has one task per URL received.
C34_MaterializedBeforeDispatch ==
    /\ p_pc \in {"called", "collect"} =>
          /\ ~TaskExists
          /\ d_pc = "none"
    /\ (\A w \in Callers : f_pc[w] = "idle" /\ f_gets[w] = 0) \/ TaskExists
    /\ (TaskExists /\ mode = "crawl") =>
          /\ c_pc = "exhausted"
          /\ c_page = page_num
          /\ d_n = Len(c_yielded)
          /\ \A i \in Tasks : t_pc[i] # "none" <=> i <= d_n

\* two pages crawled, a task of the pass is in the rate gate
C34_Witness ==
    /\ mode = "crawl" /\ c_pc = "exhausted" /\ Len(c_yielded) = 2
    /\ \E i \in Tasks : t_pc[i] = "gate1"

(***************************************************************************)
(* URLProcessor: the template                                              *)
(***************************************************************************)
\* the names of the replacement fields of a template, left to right
RECURSIVE FieldsFrom(_, _)
FieldsFrom(t, p) ==
    IF p > Len(t) THEN <<>>
    ELSE IF t[p] = "{"
         THEN LET c == CloseAt(t, p)
              IN  IF c = 0 THEN <<>>
                  ELSE <<SubSeq(t, p + 1, c - 1)>> \o FieldsFrom(t, c + 1)
         ELSE FieldsFrom(t, p + 1)

\* a template with every replacement field blanked
RECURSIVE FieldsBlanked(_, _)
FieldsBlanked(t, p) ==
    IF p > Len(t) THEN <<>>
    ELSE IF t[p] = "{" /\ CloseAt(t, p) # 0
         THEN <<"#">> \o FieldsBlanked(t, CloseAt(t, p) + 1)
         ELSE <<t[p]>> \o FieldsBlanked(t, p + 1)

\* a file name with every maximal digit run blanked
RECURSIVE RunsBlanked(_, _)
RunsBlanked(fn, p) ==
    IF p > Len(fn) THEN <<>>
    ELSE IF IsDigit(fn[p])
         THEN (IF p > 1 /\ IsDigit(fn[p - 1]) THEN <<>> ELSE <<"#">>)
              \o RunsBlanked(fn, p + 1)
         ELSE <<fn[p]>> \o RunsBlanked(fn, p + 1)

TemplateBuilt == u_pc \in {"ready", "iter", "exhausted"}

\* C35: the template built from a URL with a digit run in its last segment
\* has as many replacement fields as there are runs, named var0, var1, ...
\* from left to right, and n_digits lists the lengths of the runs.
C35_PlaceholdersNameRuns ==
    TemplateBuilt =>
        LET runs == FindAllDigits(LastSegment(data_url))
            fields == FieldsFrom(template, 1)
        IN  /\ Len(fields) = Len(n_digits)
            /\ Len(n_digits) = Len(runs)
            /\ \A k \in 1..Len(fields) : fields[k] = VarName(k - 1)
            /\ \A k \in 1..Len(runs) : n_digits[k] = Len(runs[k])

\* C36: apart from the digit runs of the last segment, each of which has
\* become one replacement field, the template is the URL: the part before
\* the last segment is unchanged and so is every non-digit character of the
\* last segment.
C36_OnlyLastSegmentRunsReplaced ==
    TemplateBuilt =>
        LET fn == LastSegment(data_url)
            head == SubSeq(data_url, 1, Len(data_url) - Len(fn))
        IN  FieldsBlanked(template, 1) = head \o RunsBlanked(fn, 1)

(***************************************************************************)
(* _page_crawl: the cursor                                                 *)
(***************************************************************************)
\* C37: the URLs received from the crawl are the images of pages 1..k of
\* the chain, in order, with k at most page_num, and the cursor url points
\* to page k + 1 (k + 2 between the assignment of line 388 and the
\* delivery of the k+1st image): a skipped page leaves the cursor where it
\* was, so the next iteration requests that page again.
C37_CursorFollowsYields ==
    /\ c_yielded = [j \in 1..Len(c_yielded) |-> j]
    /\ Len(c_yielded) <= page_num
    /\ c_pc # "none" =>
          c_url = Len(c_yielded) + 1 + (IF c_pc = "yield" THEN 1 ELSE 0)

\* three iterations, two of them skipped
C37_Witness ==
    /\ c_pc = "exhausted" /\ page_num = 3
    /\ c_yielded = <<1>> /\ c_url = 2

(***************************************************************************)
(* download(): the archive of the passes                                   *)
(***************************************************************************)
\* C38: in normal mode, when download() has ended with the template built,
\* each of the four passes has written the archive once, the last of them
\* being the pass with separator "_", and what the archive holds is the
\* img_list of that pass.
C38_ArchiveOfLastPass ==
    (mode = "normal" /\ p_pc \in {"returned", "raised"}
        /\ ~NoDigitInLastSegment(data_url)) =>
        /\ zip_calls = Len(PassesOf("normal"))
        /\ p_passes # <<>> /\ p_passes[Len(p_passes)] = "special_"
        /\ zip_arg = d_img_list

(***************************************************************************)
(* URLProcessor: distinct candidates                                       *)
(***************************************************************************)
OneRunInLastSegment(url) == Len(FindAllDigits(LastSegment(url))) = 1

\* C39: for a URL with exactly one digit run in its last segment, the URLs
\* a generator yields are pairwise distinct (normal list: also for indices
\* wider than the run; special list: the 21 symbols), and no URL of a
\* special list, whatever its separator, is a URL of the normal list.
\* Stated for the URL yielded last against every earlier one, in every
\* reachable state of the generator.
C39_CandidatesDistinct ==
    (u_pc \in {"iter", "exhausted"} /\ OneRunInLastSegment(data_url)
        /\ generated # <<>>) =>
        LET n == Len(generated) IN
        /\ \A i \in 1..(n - 1) : generated[i] # generated[n]
        /\ gen_kind = "special" =>
               \A i \in 0..pnum : generated[n] # NormalUrl(i)
        /\ (u_pc = "exhausted" /\ gen_kind = "special") => n = 21

\* a normal list whose last indices are wider than the one-digit run
C39_Witness ==
    /\ u_pc = "exhausted" /\ gen_kind = "normal" /\ pnum >= 10
    /\ OneRunInLastSegment(data_url) /\ n_digits = <<1>>
    /\ Len(generated) = pnum + 1

(***************************************************************************)
(* download(): who closes the session                                      *)
(***************************************************************************)
DownloadEnded == p_pc \in {"returned", "raised"}

\* C40: when download() has returned or raised, the session the grabber
\* holds is closed if and only if the grabber owns it; and a session the
\* caller injected (session 0 of a grabber that does not own it at
\* construction) is never closed, also not after a refresh replaced it.
C40_ClosedIffOwned ==
    /\ [](DownloadEnded => (scraper \in closed <=> own_scraper))
    /\ ((scraper = 0 /\ ~own_scraper) => [](0 \notin closed))

\* download() ended after a refresh replaced an injected session
C40_Witness ==
    /\ DownloadEnded
    /\ scraper # 0 /\ own_scraper /\ scraper \in closed
    /\ 0 \notin closed

====
